---- MODULE Spec2Model ----
(***************************************************************************)
(* Model of the Virginia county aggregation pipeline                       *)
(* (Scripts/build_geojson_and_data_json.py) and of the rating validator    *)
(* (Scripts/validate_rating_colors.py).                                    *)
(*                                                                         *)
(* Python str values are modelled as sequences of one-character strings,   *)
(* so that strip/upper/replace/regex steps are computed character by       *)
(* character.  Python floats that the code derives from vote counts are    *)
(* modelled as exact rationals (numerator/denominator); values rounded to  *)
(* two decimals are modelled as an integer number of hundredths.           *)
(***************************************************************************)
EXTENDS Integers, Sequences, FiniteSets, TLC

(***************************************************************************)
(* Characters and the str methods the scripts use.                         *)
(***************************************************************************)
\* Printable ASCII in code-point order (code point = index + 31); the grave
\* accent (code point 96) is held by a placeholder.
ASCII ==
  <<" ", "!", "\"", "#", "$", "%", "&", "'", "(", ")", "*", "+", ",", "-", ".", "/", "0", "1", "2", "3", "4", "5", "6", "7", "8", "9", ":", ";", "<", "=", ">", "?", "@", "A", "B", "C", "D", "E", "F", "G", "H", "I", "J", "K", "L", "M", "N", "O", "P", "Q", "R", "S", "T", "U", "V", "W", "X", "Y", "Z", "[", "\\", "]", "^", "_", "GRAVE", "a", "b", "c", "d", "e", "f", "g", "h", "i", "j", "k", "l", "m", "n", "o", "p", "q", "r", "s", "t", "u", "v", "w", "x", "y", "z", "{", "|", "}", "~">>

LowerLetters ==
  <<"a", "b", "c", "d", "e", "f", "g", "h", "i", "j", "k", "l", "m", "n", "o", "p", "q", "r", "s", "t", "u", "v", "w", "x", "y", "z">>

UpperLetters ==
  <<"A", "B", "C", "D", "E", "F", "G", "H", "I", "J", "K", "L", "M", "N", "O", "P", "Q", "R", "S", "T", "U", "V", "W", "X", "Y", "Z">>

Digits == {"0", "1", "2", "3", "4", "5", "6", "7", "8", "9"}

\* Characters matched by str.strip() and by the regex class \s.
Whitespace == {" ", "\t"}

Range(f) == {f[i] : i \in DOMAIN f}

\* ord(c): Python orders str values by code point.
CodePoint(c) ==
  IF c = "\t" THEN 9 ELSE 31 + (CHOOSE i \in DOMAIN ASCII : ASCII[i] = c)

\* str.upper() on one character.
UpperChar(c) ==
  IF c \in Range(LowerLetters)
    THEN UpperLetters[CHOOSE i \in DOMAIN LowerLetters : LowerLetters[i] = c]
    ELSE c

\* str.lower() on one character.
LowerChar(c) ==
  IF c \in Range(UpperLetters)
    THEN LowerLetters[CHOOSE i \in DOMAIN UpperLetters : UpperLetters[i] = c]
    ELSE c

\* str.upper()
Upper(s) == [i \in DOMAIN s |-> UpperChar(s[i])]

\* str.lower()
Lower(s) == [i \in DOMAIN s |-> LowerChar(s[i])]

RECURSIVE LStrip(_)
\* str.lstrip()
LStrip(s) ==
  IF s = <<>> THEN <<>>
  ELSE IF Head(s) \in Whitespace THEN LStrip(Tail(s)) ELSE s

RECURSIVE RStrip(_)
\* str.rstrip()
RStrip(s) ==
  IF s = <<>> THEN <<>>
  ELSE IF s[Len(s)] \in Whitespace THEN RStrip(SubSeq(s, 1, Len(s) - 1)) ELSE s

\* str.strip()
Strip(s) == RStrip(LStrip(s))

RECURSIVE ReplaceChar(_, _, _)
\* str.replace(c, t) for a one-character pattern c
ReplaceChar(s, c, t) ==
  IF s = <<>> THEN <<>>
  ELSE (IF Head(s) = c THEN t ELSE <<Head(s)>>) \o ReplaceChar(Tail(s), c, t)

RECURSIVE CollapseWhitespace(_)
\* re.sub(r'\s+', ' ', s)
CollapseWhitespace(s) ==
  IF s = <<>> THEN <<>>
  ELSE IF Head(s) \in Whitespace
    THEN <<" ">> \o CollapseWhitespace(LStrip(s))
    ELSE <<Head(s)>> \o CollapseWhitespace(Tail(s))

\* sub in s  (substring test)
Contains(s, sub) ==
  \E i \in 1..(Len(s) - Len(sub) + 1) : SubSeq(s, i, i + Len(sub) - 1) = sub

\* s < t in Python's str ordering (lexicographic by code point)
StrLess(s, t) ==
  \E i \in 1..(Len(t)) :
    /\ i <= Len(s) + 1
    /\ \A j \in 1..(i - 1) : s[j] = t[j]
    /\ \/ i = Len(s) + 1
       \/ i <= Len(s) /\ CodePoint(s[i]) < CodePoint(t[i])

\* a < b for tuples of str, compared component by component
TupleLess(a, b) ==
  \E i \in 1..Len(a) :
    /\ \A j \in 1..(i - 1) : a[j] = b[j]
    /\ StrLess(a[i], b[i])

RECURSIVE SortedStrings(_)
\* sorted(S) for a set of str
SortedStrings(S) ==
  IF S = {} THEN <<>>
  ELSE LET m == CHOOSE x \in S : \A y \in S \ {x} : StrLess(x, y)
       IN  <<m>> \o SortedStrings(S \ {m})

RECURSIVE SortedTuples(_)
\* sorted(S) for a set of tuples of str
SortedTuples(S) ==
  IF S = {} THEN <<>>
  ELSE LET m == CHOOSE x \in S : \A y \in S \ {x} : TupleLess(x, y)
       IN  <<m>> \o SortedTuples(S \ {m})

RECURSIVE DecValue(_)
\* value of a string of decimal digits
DecValue(s) ==
  IF s = <<>> THEN 0
  ELSE 10 * DecValue(SubSeq(s, 1, Len(s) - 1))
       + (CodePoint(s[Len(s)]) - CodePoint("0"))

RECURSIVE DecDigits(_)
\* str(n) for n >= 0
DecDigits(n) ==
  IF n < 10 THEN <<ASCII[n + 17]>>
  ELSE DecDigits(n \div 10) \o <<ASCII[(n % 10) + 17]>>

Abs(n) == IF n < 0 THEN -n ELSE n

(***************************************************************************)
(* Name Normalizer                                                         *)
(***************************************************************************)
normalize_county(name) ==
  LET s1 == Upper(Strip(name))
      s2 == ReplaceChar(s1, "&", <<"A", "N", "D">>)
      s3 == ReplaceChar(s2, ".", <<>>)
  IN  CollapseWhitespace(s3)

\* Start of the match of r'\s*\(CD\s*0*\d+\)\s*$' (IGNORECASE) in a stripped
\* string, or 0 when the pattern does not match.
CdSuffixStart(s) ==
  LET n  == Len(s)
      \* index of the first digit of the maximal digit run ending at n - 1
      d0 == CHOOSE i \in 1..(n + 1) :
              /\ \A j \in i..(n - 1) : s[j] \in Digits
              /\ (i = 1 \/ i > n \/ s[i - 1] \notin Digits)
              /\ i <= n
      \* index of the first whitespace of the maximal run ending at d0 - 1
      w0 == CHOOSE i \in 1..d0 :
              /\ \A j \in i..(d0 - 1) : s[j] \in Whitespace
              /\ (i = 1 \/ s[i - 1] \notin Whitespace)
      \* index of the "(" of "(CD"
      p  == w0 - 3
      \* index of the first whitespace of the maximal run ending at p - 1
      l0 == CHOOSE i \in 1..p :
              /\ \A j \in i..(p - 1) : s[j] \in Whitespace
              /\ (i = 1 \/ s[i - 1] \notin Whitespace)
  IN  IF /\ n >= 5
         /\ s[n] = ")"
         /\ d0 <= n - 1
         /\ p >= 1
         /\ s[p] = "("
         /\ UpperChar(s[p + 1]) = "C"
         /\ UpperChar(s[p + 2]) = "D"
      THEN l0
      ELSE 0

\* Variant of clean_county_for_matching: the pattern applied without
\* IGNORECASE, so a tag written in lower case stays.
clean_county_for_matching_CaseSensitive(name) ==
  LET s == Strip(name)
      k == CdSuffixStart(s)
  IN  IF k = 0 \/ \E i \in k..Len(s) : s[i] \in {"c", "d"}
        THEN s
        ELSE SubSeq(s, 1, k - 1)

clean_county_for_matching(name) ==
  LET s == Strip(name)
      k == CdSuffixStart(s)
  IN  IF k = 0 THEN s ELSE SubSeq(s, 1, k - 1)

(***************************************************************************)
(* Static lookup tables                                                    *)
(***************************************************************************)
\* dict.get(k, default)
Get(d, k, default) == IF k \in DOMAIN d THEN d[k] ELSE default

PARTY_CODE_MAP ==
  (<<"D", "E", "M", "O", "C", "R", "A", "T", "I", "C">> :> <<"D", "E", "M">>) @@
  (<<"R", "E", "P", "U", "B", "L", "I", "C", "A", "N">> :> <<"R", "E", "P">>) @@
  (<<"L", "I", "B", "E", "R", "T", "A", "R", "I", "A", "N">> :> <<"L", "I", "B">>) @@
  (<<"G", "R", "E", "E", "N">> :> <<"G", "R", "N">>) @@
  (<<"I", "N", "D", "E", "P", "E", "N", "D", "E", "N", "T">> :> <<"I", "N", "D">>) @@
  (<<"F", "O", "R", "W", "A", "R", "D">> :> <<"F", "W", "D">>) @@
  (<<"O", "T", "H", "E", "R">> :> <<"O", "T", "H">>) @@
  (<<"W", "R", "I", "T", "E", "-", "I", "N">> :> <<"W", "R", "I">>) @@
  (<<"W", "R", "I", "T", "E", " ", "I", "N">> :> <<"W", "R", "I">>) @@
  (<<>> :> <<"O", "T", "H">>)

HISTORICAL_TO_CURRENT ==
  (<<"B", "E", "D", "F", "O", "R", "D", " ", "C", "I", "T", "Y">> :> <<"B", "E", "D", "F", "O", "R", "D", " ", "C", "O", "U", "N", "T", "Y">>) @@
  (<<"C", "L", "I", "F", "T", "O", "N", " ", "F", "O", "R", "G", "E", " ", "C", "I", "T", "Y">> :> <<"A", "L", "L", "E", "G", "H", "A", "N", "Y", " ", "C", "O", "U", "N", "T", "Y">>) @@
  (<<"S", " ", "B", "O", "S", "T", "O", "N", " ", "C", "I", "T", "Y">> :> <<"H", "A", "L", "I", "F", "A", "X", " ", "C", "O", "U", "N", "T", "Y">>) @@
  (<<"S", "O", "U", "T", "H", " ", "B", "O", "S", "T", "O", "N", " ", "C", "I", "T", "Y">> :> <<"H", "A", "L", "I", "F", "A", "X", " ", "C", "O", "U", "N", "T", "Y">>) @@
  (<<"M", "A", "N", "A", "S", "S", "A", "S", " ", "C", "O", "U", "N", "T", "Y">> :> <<"M", "A", "N", "A", "S", "S", "A", "S", " ", "C", "I", "T", "Y">>)

CANDIDATE_NAME_OVERRIDES ==
  (<<"A", ".", " ", "D", "o", "n", "a", "l", "d", " ", "M", "c", "E", "a", "c", "h", "i", "n">> :> <<"A", "s", "t", "o", "n", " ", "D", "o", "n", "a", "l", "d", " ", "M", "c", "E", "a", "c", "h", "i", "n">>) @@
  (<<"C", ".", " ", "S", ".", " ", "R", "o", "b", "b">> :> <<"C", "h", "a", "r", "l", "e", "s", " ", "S", ".", " ", "R", "o", "b", "b">>) @@
  (<<"C", "h", "a", "r", "i", "e", "s", " ", "S", ".", " ", "R", "o", "b", "b">> :> <<"C", "h", "a", "r", "l", "e", "s", " ", "S", ".", " ", "R", "o", "b", "b">>) @@
  (<<"D", ".", " ", "S", ".", " ", "B", "e", "y", "e", "r", ",", " ", "J", "r">> :> <<"D", "o", "n", "a", "l", "d", " ", "S", ".", " ", "B", "e", "y", "e", "r", ",", " ", "J", "r">>) @@
  (<<"G", ".", " ", "F", ".", " ", "A", "l", "l", "e", "n">> :> <<"G", "e", "o", "r", "g", "e", " ", "F", ".", " ", "A", "l", "l", "e", "n">>) @@
  (<<"J", ".", " ", "H", ".", " ", "H", "a", "g", "e", "r">> :> <<"J", "o", "h", "n", " ", "H", ".", " ", "H", "a", "g", "e", "r">>) @@
  (<<"J", ".", " ", "H", ".", " ", "W", "e", "b", "b", ",", " ", "J", "r">> :> <<"J", "a", "m", "e", "s", " ", "H", ".", " ", "W", "e", "b", "b", ",", " ", "J", "r">>) @@
  (<<"J", ".", " ", "K", ".", " ", "K", "a", "t", "z", "e", "n">> :> <<"J", "a", "y", " ", "K", ".", " ", "K", "a", "t", "z", "e", "n">>) @@
  (<<"J", ".", " ", "M", "a", "r", "s", "h", "a", "l", "l", " ", "C", "o", "l", "e", "m", "a", "n">> :> <<"J", "o", "h", "n", " ", "M", "a", "r", "s", "h", "a", "l", "l", " ", "C", "o", "l", "e", "m", "a", "n">>) @@
  (<<"J", ".", " ", "S", ".", " ", "G", "i", "l", "m", "o", "r", "e", ",", " ", "I", "I", "I">> :> <<"J", "a", "m", "e", "s", " ", "S", ".", " ", "G", "i", "l", "m", "o", "r", "e", ",", " ", "I", "I", "I">>) @@
  (<<"J", ".", " ", "W", ".", " ", "K", "i", "l", "g", "o", "r", "e">> :> <<"J", "e", "r", "r", "y", " ", "W", ".", " ", "K", "i", "l", "g", "o", "r", "e">>) @@
  (<<"J", "a", "m", "e", "s", " ", "J", "i", "m", " ", "S", ".", " ", "G", "i", "l", "m", "o", "r", "e", ",", " ", "I", "I", "I">> :> <<"J", "a", "m", "e", "s", " ", "S", ".", " ", "G", "i", "l", "m", "o", "r", "e", ",", " ", "I", "I", "I">>) @@
  (<<"J", ".", " ", "W", ".", " ", "W", "a", "r", "n", "e", "r">> :> <<"J", "o", "h", "n", " ", "W", ".", " ", "W", "a", "r", "n", "e", "r">>) @@
  (<<"L", ".", " ", "F", ".", " ", "P", "a", "y", "n", "e", ",", " ", "J", "r">> :> <<"L", "e", "w", "i", "s", " ", "F", ".", " ", "P", "a", "y", "n", "e", ",", " ", "J", "r">>) @@
  (<<"L", ".", " ", "L", ".", " ", "B", "y", "r", "n", "e">> :> <<"L", "e", "s", "l", "i", "e", " ", "L", ".", " ", "B", "y", "r", "n", "e">>) @@
  (<<"M", ".", " ", "L", ".", " ", "E", "a", "r", "l", "e", "y">> :> <<"M", "a", "r", "k", " ", "L", ".", " ", "E", "a", "r", "l", "e", "y">>) @@
  (<<"M", ".", " ", "R", ".", " ", "W", "a", "r", "n", "e", "r">> :> <<"M", "a", "r", "k", " ", "R", ".", " ", "W", "a", "r", "n", "e", "r">>) @@
  (<<"T", ".", " ", "M", ".", " ", "K", "a", "i", "n", "e">> :> <<"T", "i", "m", "o", "t", "h", "y", " ", "M", ".", " ", "K", "a", "i", "n", "e">>) @@
  (<<"W", ".", " ", "B", ".", " ", "R", "e", "d", "p", "a", "t", "h">> :> <<"W", "i", "l", "l", "i", "a", "m", " ", "B", ".", " ", "R", "e", "d", "p", "a", "t", "h">>) @@
  (<<"W", ".", " ", "R", ".", " ", "O", "'", "B", "r", "i", "e", "n">> :> <<"W", "i", "l", "l", "i", "a", "m", " ", "R", ".", " ", "O", "'", "B", "r", "i", "e", "n">>) @@
  (<<"W", ".", " ", "T", ".", " ", "B", "o", "l", "l", "i", "n", "g">> :> <<"W", "i", "l", "l", "i", "a", "m", " ", "T", ".", " ", "B", "o", "l", "l", "i", "n", "g">>) @@
  (<<"W", "i", "l", "l", "i", "a", "m", " ", "B", "i", "l", "l", " ", "T", ".", " ", "B", "o", "l", "l", "i", "n", "g">> :> <<"W", "i", "l", "l", "i", "a", "m", " ", "T", ".", " ", "B", "o", "l", "l", "i", "n", "g">>)

ALLOWED_CONTESTS ==
  { <<"P", "r", "e", "s", "i", "d", "e", "n", "t">>,
    <<"U", ".", "S", ".", " ", "S", "e", "n", "a", "t", "e">>,
    <<"G", "o", "v", "e", "r", "n", "o", "r">>,
    <<"L", "i", "e", "u", "t", "e", "n", "a", "n", "t", " ", "G", "o", "v", "e", "r", "n", "o", "r">>,
    <<"A", "t", "t", "o", "r", "n", "e", "y", " ", "G", "e", "n", "e", "r", "a", "l">> }

\* Locality texts the loader treats as statewide/total rows.
TOTAL_MARKERS ==
  { <<"T", "O", "T", "A", "L">>,
    <<"T", "O", "T", "A", "L", "S">>,
    <<"V", "I", "R", "G", "I", "N", "I", "A">>,
    <<"C", "O", "M", "M", "O", "N", "W", "E", "A", "L", "T", "H", " ", "O", "F", " ", "V", "I", "R", "G", "I", "N", "I", "A">> }

\* Columns a file must have to be loaded.
REQUIRED_COLUMNS == {"county", "office", "party", "candidate", "votes"}

\* Party codes as build_county_record compares them.
DEM ==
  <<"D", "E", "M">>

REP ==
  <<"R", "E", "P">>

(***************************************************************************)
(* Record Loader helpers                                                   *)
(***************************************************************************)
\* float(s) accepts s: optional sign, then digits with at most one "." and at
\* least one digit.  (Exponent, inf/nan and underscore forms use characters
\* outside the modelled vote alphabet.)
FloatBody(s) == IF s # <<>> /\ Head(s) \in {"+", "-"} THEN Tail(s) ELSE s

FloatAccepts(s) ==
  LET b == FloatBody(Strip(s))
  IN  /\ \A i \in DOMAIN b : b[i] \in Digits \cup {"."}
      /\ Cardinality({i \in DOMAIN b : b[i] = "."}) <= 1
      /\ \E i \in DOMAIN b : b[i] \in Digits

\* int(float(s)) for an accepted s: the integer part, truncated toward zero.
IntOfFloat(s) ==
  LET t    == Strip(s)
      b    == FloatBody(t)
      dots == {i \in DOMAIN b : b[i] = "."}
      ip   == IF dots = {} THEN b
              ELSE SubSeq(b, 1, (CHOOSE i \in dots : TRUE) - 1)
      v    == DecValue(ip)
  IN  IF Head(t) = "-" THEN -v ELSE v

\* parse_votes(value) raises ValueError: the text left after removing the
\* separators is not blank and float() rejects it.
ParseVotesRaises(value) ==
  LET s == Strip(ReplaceChar(value, ",", <<>>))
  IN  s # <<>> /\ ~FloatAccepts(s)

\* The vote count parse_votes(value) returns when it does not raise.
parse_votes(value) ==
  LET s == Strip(ReplaceChar(value, ",", <<>>))
  IN  IF s = <<>> THEN 0 ELSE IntOfFloat(s)

party_code(party_name) ==
  LET p == Upper(Strip(party_name))
  IN  Get(PARTY_CODE_MAP, p,
          IF p # <<>> THEN SubSeq(p, 1, IF Len(p) < 3 THEN Len(p) ELSE 3)
          ELSE <<"O", "T", "H">>)

canonical_candidate_name(name) ==
  LET n == Strip(name)
  IN  Get(CANDIDATE_NAME_OVERRIDES, n, n)

classify_office_type(contest) ==
  LET c == Lower(contest)
  IN  IF \E x \in { <<"p", "r", "e", "s", "i", "d", "e", "n", "t">>, <<"s", "e", "n", "a", "t", "e">>,
                    <<"h", "o", "u", "s", "e", " ", "o", "f", " ", "r", "e", "p", "r", "e", "s", "e", "n", "t", "a", "t", "i", "v", "e", "s">>, <<"u", ".", "s", ".">>,
                    <<"u", "s", " ", "s", "e", "n", "a", "t", "e">>, <<"c", "o", "n", "g", "r", "e", "s", "s">> } : Contains(c, x)
        THEN "Federal"
      ELSE IF \E x \in { <<"j", "u", "d", "g", "e">>, <<"j", "u", "d", "i", "c", "i", "a", "l">>, <<"j", "u", "s", "t", "i", "c", "e">> } : Contains(c, x)
        THEN "Judicial"
      ELSE IF \E x \in { <<"g", "o", "v", "e", "r", "n", "o", "r">>, <<"a", "t", "t", "o", "r", "n", "e", "y", " ", "g", "e", "n", "e", "r", "a", "l">>,
                         <<"l", "i", "e", "u", "t", "e", "n", "a", "n", "t", " ", "g", "o", "v", "e", "r", "n", "o", "r">>,
                         <<"h", "o", "u", "s", "e", " ", "o", "f", " ", "d", "e", "l", "e", "g", "a", "t", "e", "s">> } : Contains(c, x)
        THEN "State"
      ELSE "Other"

contest_rank(contest) ==
  LET c == Lower(contest)
  IN  IF c = <<"p", "r", "e", "s", "i", "d", "e", "n", "t">> THEN 1
      ELSE IF c \in { <<"u", ".", "s", ".", " ", "s", "e", "n", "a", "t", "e">>, <<"u", "s", " ", "s", "e", "n", "a", "t", "e">> } THEN 2
      ELSE IF c = <<"g", "o", "v", "e", "r", "n", "o", "r">> THEN 3
      ELSE IF c = <<"l", "i", "e", "u", "t", "e", "n", "a", "n", "t", " ", "g", "o", "v", "e", "r", "n", "o", "r">> THEN 4
      ELSE IF c = <<"a", "t", "t", "o", "r", "n", "e", "y", " ", "g", "e", "n", "e", "r", "a", "l">> THEN 5
      ELSE 99

canonical_contest(contest) ==
  LET c == Strip(contest)
  IN  IF Lower(c) = <<"u", "s", " ", "s", "e", "n", "a", "t", "e">> THEN <<"U", ".", "S", ".", " ", "S", "e", "n", "a", "t", "e">> ELSE c

\* re.match(r'^(\d{4})\d{4}__', name)
year_from_filename(name) ==
  IF /\ Len(name) >= 10
     /\ \A i \in 1..8 : name[i] \in Digits
     /\ name[9] = "_"
     /\ name[10] = "_"
  THEN SubSeq(name, 1, 4)
  ELSE <<"u", "n", "k", "n", "o", "w", "n">>

(***************************************************************************)
(* Arithmetic on the floats the scripts derive from vote counts            *)
(***************************************************************************)
\* The quotient n / d (d # 0) as an exact rational with positive denominator.
Rat(n, d) == IF d > 0 THEN [num |-> n, den |-> d] ELSE [num |-> -n, den |-> -d]

RatAbs(a) == [num |-> Abs(a.num), den |-> a.den]

\* Variant of RatLess: the comparison written as <=.
RatLess_OrEqual(a, b) == a.num * b.den <= b.num * a.den

\* a < b
RatLess(a, b) == a.num * b.den < b.num * a.den

\* round(a, 2), as a number of hundredths.  Python rounds the float a to the
\* nearest hundredth; an exact tie goes to the even hundredth.
Round2(a) ==
  LET whole == a.num \div a.den
      n     == (a.num % a.den) * 100
      fl    == whole * 100 + n \div a.den
      rem   == n % a.den
  IN  IF 2 * rem > a.den THEN fl + 1
      ELSE IF 2 * rem < a.den THEN fl
      ELSE IF fl % 2 = 0 THEN fl ELSE fl + 1

\* f'{a:.2f}' for a >= 0
Format2f(a) ==
  LET h == Round2(a)
      c == h % 100
  IN  DecDigits(h \div 100) \o <<".">> \o
      (IF c < 10 THEN <<"0">> ELSE <<>>) \o DecDigits(c)

(***************************************************************************)
(* Classifier                                                              *)
(***************************************************************************)
COMPETITIVENESS_SCALE ==
  (<<"R", "e", "p", "u", "b", "l", "i", "c", "a", "n">> :> <<
     [category |-> <<"A", "n", "n", "i", "h", "i", "l", "a", "t", "i", "o", "n">>, range |-> "R+40%+", color |-> <<"#", "6", "7", "0", "0", "0", "d">>],
     [category |-> <<"D", "o", "m", "i", "n", "a", "n", "t">>, range |-> "R+30.00-39.99%", color |-> <<"#", "a", "5", "0", "f", "1", "5">>],
     [category |-> <<"S", "t", "r", "o", "n", "g", "h", "o", "l", "d">>, range |-> "R+20.00-29.99%", color |-> <<"#", "c", "b", "1", "8", "1", "d">>],
     [category |-> <<"S", "a", "f", "e">>, range |-> "R+10.00-19.99%", color |-> <<"#", "e", "f", "3", "b", "2", "c">>],
     [category |-> <<"L", "i", "k", "e", "l", "y">>, range |-> "R+5.50-9.99%", color |-> <<"#", "f", "b", "6", "a", "4", "a">>],
     [category |-> <<"L", "e", "a", "n">>, range |-> "R+1.00-5.49%", color |-> <<"#", "f", "c", "a", "e", "9", "1">>],
     [category |-> <<"T", "i", "l", "t">>, range |-> "R+0.50-0.99%", color |-> <<"#", "f", "e", "e", "8", "c", "8">>] >>) @@
  (<<"T", "o", "s", "s", "u", "p">> :> <<
     [category |-> <<"T", "o", "s", "s", "u", "p">>, range |-> "<0.5%", color |-> <<"#", "f", "7", "f", "7", "f", "7">>] >>) @@
  (<<"D", "e", "m", "o", "c", "r", "a", "t", "i", "c">> :> <<
     [category |-> <<"T", "i", "l", "t">>, range |-> "D+0.50-0.99%", color |-> <<"#", "e", "1", "f", "5", "f", "e">>],
     [category |-> <<"L", "e", "a", "n">>, range |-> "D+1.00-5.49%", color |-> <<"#", "c", "6", "d", "b", "e", "f">>],
     [category |-> <<"L", "i", "k", "e", "l", "y">>, range |-> "D+5.50-9.99%", color |-> <<"#", "9", "e", "c", "a", "e", "1">>],
     [category |-> <<"S", "a", "f", "e">>, range |-> "D+10.00-19.99%", color |-> <<"#", "6", "b", "a", "e", "d", "6">>],
     [category |-> <<"S", "t", "r", "o", "n", "g", "h", "o", "l", "d">>, range |-> "D+20.00-29.99%", color |-> <<"#", "3", "1", "8", "2", "b", "d">>],
     [category |-> <<"D", "o", "m", "i", "n", "a", "n", "t">>, range |-> "D+30.00-39.99%", color |-> <<"#", "0", "8", "5", "1", "9", "c">>],
     [category |-> <<"A", "n", "n", "i", "h", "i", "l", "a", "t", "i", "o", "n">>, range |-> "D+40%+", color |-> <<"#", "0", "8", "3", "0", "6", "b">>] >>)

\* Variant of DemocraticColors: the Safe color mistyped.
DemocraticColors_Mistyped ==
  (<<"T", "i", "l", "t">> :> <<"#", "e", "1", "f", "5", "f", "e">>) @@
  (<<"L", "e", "a", "n">> :> <<"#", "c", "6", "d", "b", "e", "f">>) @@
  (<<"L", "i", "k", "e", "l", "y">> :> <<"#", "9", "e", "c", "a", "e", "1">>) @@
  (<<"S", "a", "f", "e">> :> <<"#", "6", "b", "a", "e", "d", "9">>) @@
  (<<"S", "t", "r", "o", "n", "g", "h", "o", "l", "d">> :> <<"#", "3", "1", "8", "2", "b", "d">>) @@
  (<<"D", "o", "m", "i", "n", "a", "n", "t">> :> <<"#", "0", "8", "5", "1", "9", "c">>) @@
  (<<"A", "n", "n", "i", "h", "i", "l", "a", "t", "i", "o", "n">> :> <<"#", "0", "8", "3", "0", "6", "b">>)

\* The colors dict of the Democratic branch of competitiveness_from_margin.
DemocraticColors ==
  (<<"T", "i", "l", "t">> :> <<"#", "e", "1", "f", "5", "f", "e">>) @@
  (<<"L", "e", "a", "n">> :> <<"#", "c", "6", "d", "b", "e", "f">>) @@
  (<<"L", "i", "k", "e", "l", "y">> :> <<"#", "9", "e", "c", "a", "e", "1">>) @@
  (<<"S", "a", "f", "e">> :> <<"#", "6", "b", "a", "e", "d", "6">>) @@
  (<<"S", "t", "r", "o", "n", "g", "h", "o", "l", "d">> :> <<"#", "3", "1", "8", "2", "b", "d">>) @@
  (<<"D", "o", "m", "i", "n", "a", "n", "t">> :> <<"#", "0", "8", "5", "1", "9", "c">>) @@
  (<<"A", "n", "n", "i", "h", "i", "l", "a", "t", "i", "o", "n">> :> <<"#", "0", "8", "3", "0", "6", "b">>)

\* The colors dict of the Republican branch of competitiveness_from_margin.
RepublicanColors ==
  (<<"T", "i", "l", "t">> :> <<"#", "f", "e", "e", "8", "c", "8">>) @@
  (<<"L", "e", "a", "n">> :> <<"#", "f", "c", "a", "e", "9", "1">>) @@
  (<<"L", "i", "k", "e", "l", "y">> :> <<"#", "f", "b", "6", "a", "4", "a">>) @@
  (<<"S", "a", "f", "e">> :> <<"#", "e", "f", "3", "b", "2", "c">>) @@
  (<<"S", "t", "r", "o", "n", "g", "h", "o", "l", "d">> :> <<"#", "c", "b", "1", "8", "1", "d">>) @@
  (<<"D", "o", "m", "i", "n", "a", "n", "t">> :> <<"#", "a", "5", "0", "f", "1", "5">>) @@
  (<<"A", "n", "n", "i", "h", "i", "l", "a", "t", "i", "o", "n">> :> <<"#", "6", "7", "0", "0", "0", "d">>)

\* Variant of SideOf: the test on the sign reversed.
SideOf_Reversed(signed_margin_pct) ==
  IF RatLess(signed_margin_pct, Rat(0, 1))
    THEN [side |-> <<"D", "e", "m", "o", "c", "r", "a", "t", "i", "c">>, prefix |-> <<"D">>, colors |-> DemocraticColors]
    ELSE [side |-> <<"R", "e", "p", "u", "b", "l", "i", "c", "a", "n">>, prefix |-> <<"R">>, colors |-> RepublicanColors]

\* Lines 207-230: the side, code prefix and colors picked by the sign.
SideOf(signed_margin_pct) ==
  IF RatLess(Rat(0, 1), signed_margin_pct)
    THEN [side |-> <<"D", "e", "m", "o", "c", "r", "a", "t", "i", "c">>, prefix |-> <<"D">>, colors |-> DemocraticColors]
    ELSE [side |-> <<"R", "e", "p", "u", "b", "l", "i", "c", "a", "n">>, prefix |-> <<"R">>, colors |-> RepublicanColors]

competitiveness_from_margin(signed_margin_pct) ==
  LET abs_margin == RatAbs(signed_margin_pct)
      side       == SideOf(signed_margin_pct).side
      prefix     == SideOf(signed_margin_pct).prefix
      colors     == SideOf(signed_margin_pct).colors
      category   ==
        IF RatLess(abs_margin, Rat(1, 1)) THEN <<"T", "i", "l", "t">>
        ELSE IF RatLess(abs_margin, Rat(11, 2)) THEN <<"L", "e", "a", "n">>
        ELSE IF RatLess(abs_margin, Rat(10, 1)) THEN <<"L", "i", "k", "e", "l", "y">>
        ELSE IF RatLess(abs_margin, Rat(20, 1)) THEN <<"S", "a", "f", "e">>
        ELSE IF RatLess(abs_margin, Rat(30, 1)) THEN <<"S", "t", "r", "o", "n", "g", "h", "o", "l", "d">>
        ELSE IF RatLess(abs_margin, Rat(40, 1)) THEN <<"D", "o", "m", "i", "n", "a", "n", "t">>
        ELSE <<"A", "n", "n", "i", "h", "i", "l", "a", "t", "i", "o", "n">>
  IN  IF RatLess(abs_margin, Rat(1, 2))
        THEN [category |-> <<"T", "o", "s", "s", "u", "p">>, party |-> <<"T", "o", "s", "s", "u", "p">>,
              code |-> <<"T", "O", "S", "S", "U", "P">>, color |-> <<"#", "f", "7", "f", "7", "f", "7">>]
        ELSE [category |-> category, party |-> side,
              code |-> prefix \o <<"_">> \o Upper(category),
              color |-> colors[category]]

(***************************************************************************)
(* Aggregator: one County Result per group                                 *)
(***************************************************************************)
RECURSIVE SumVotes(_)
\* sum(r['votes'] for r in rows)
SumVotes(rows) ==
  IF rows = <<>> THEN 0 ELSE Head(rows).votes + SumVotes(Tail(rows))

\* [r for r in rows if r['party_code'] == code]
RowsOfParty(rows, code) == SelectSeq(rows, LAMBDA r : r.party_code = code)

\* Variant of MaxVotesIndex: the first row, whatever its votes.
MaxVotesIndex_FirstRow(rows) == 1

\* Index of max(rows, key=votes): the first row holding the highest votes.
MaxVotesIndex(rows) ==
  CHOOSE i \in DOMAIN rows :
    /\ \A j \in DOMAIN rows : rows[j].votes <= rows[i].votes
    /\ \A j \in 1..(i - 1) : rows[j].votes < rows[i].votes

RemoveAt(s, i) == SubSeq(s, 1, i - 1) \o SubSeq(s, i + 1, Len(s))

RECURSIVE SortedByVotesDesc(_)
\* sorted(rows, key=votes, reverse=True); the sort is stable
SortedByVotesDesc(rows) ==
  IF rows = <<>> THEN <<>>
  ELSE LET i == MaxVotesIndex(rows)
       IN  <<rows[i]>> \o SortedByVotesDesc(RemoveAt(rows, i))

\* dict(sorted(all_parties.items())), as the sequence of its items
AllParties(rows) ==
  LET codes == SortedStrings({rows[i].party_code : i \in DOMAIN rows})
  IN  [k \in DOMAIN codes |-> <<codes[k], SumVotes(RowsOfParty(rows, codes[k]))>>]

\* Variant of SignedMarginPct: the guard written as two_party_total != 0.
SignedMarginPct_NonZeroGuard(dem_votes, rep_votes) ==
  LET two_party_total == dem_votes + rep_votes
  IN  IF two_party_total # 0
        THEN Rat((dem_votes - rep_votes) * 100, two_party_total)
        ELSE Rat(0, 1)

\* Variant of SignedMarginPct: Republican minus Democratic votes.
SignedMarginPct_Swapped(dem_votes, rep_votes) ==
  LET two_party_total == dem_votes + rep_votes
  IN  IF two_party_total > 0
        THEN Rat((rep_votes - dem_votes) * 100, two_party_total)
        ELSE Rat(0, 1)

\* Variant of SignedMarginPct: the share left as a fraction, not a percentage.
SignedMarginPct_Fraction(dem_votes, rep_votes) ==
  LET two_party_total == dem_votes + rep_votes
  IN  IF two_party_total > 0
        THEN Rat(dem_votes - rep_votes, two_party_total)
        ELSE Rat(0, 1)

\* Lines 267-275: the classifier's input, on the two-party denominator.
SignedMarginPct(dem_votes, rep_votes) ==
  LET two_party_total == dem_votes + rep_votes
  IN  IF two_party_total > 0
        THEN Rat((dem_votes - rep_votes) * 100, two_party_total)
        ELSE Rat(0, 1)

\* Lines 277-285 and 317: margin_pct, on the total-votes denominator, as text.
MarginPctText(dem_votes, rep_votes, total_votes) ==
  IF total_votes > 0
    THEN Format2f(Rat(Abs(dem_votes - rep_votes) * 100, total_votes))
    ELSE Format2f(Rat(0, 1))

\* Variant of OtherVotes: the Republican votes are not subtracted.
OtherVotes_DemOnly(total_votes, dem_votes, rep_votes) == total_votes - dem_votes

\* Line 294
OtherVotes(total_votes, dem_votes, rep_votes) ==
  total_votes - dem_votes - rep_votes

build_county_record(year, contest, county_label, fips, party_rows) ==
  LET total_votes       == SumVotes(party_rows)
      dem_rows          == RowsOfParty(party_rows, DEM)
      rep_rows          == RowsOfParty(party_rows, REP)
      dem_votes         == SumVotes(dem_rows)
      rep_votes         == SumVotes(rep_rows)
      dem_candidate     == IF dem_rows # <<>>
                             THEN dem_rows[MaxVotesIndex(dem_rows)].candidate
                             ELSE <<>>
      rep_candidate     == IF rep_rows # <<>>
                             THEN rep_rows[MaxVotesIndex(rep_rows)].candidate
                             ELSE <<>>
      two_party_total   == dem_votes + rep_votes
      signed_margin_pct == SignedMarginPct(dem_votes, rep_votes)
      sorted_rows       == SortedByVotesDesc(party_rows)
      top1              == IF Len(sorted_rows) > 0 THEN sorted_rows[1].votes ELSE 0
      top2              == IF Len(sorted_rows) > 1 THEN sorted_rows[2].votes ELSE 0
      margin            == IF total_votes > 0
                             THEN Abs(dem_votes - rep_votes)
                             ELSE Abs(top1 - top2)
      margin_pct        == MarginPctText(dem_votes, rep_votes, total_votes)
      winner            == IF dem_votes > rep_votes THEN DEM
                           ELSE IF rep_votes > dem_votes THEN REP
                           ELSE IF party_rows # <<>>
                             THEN party_rows[MaxVotesIndex(party_rows)].party_code
                           ELSE <<"T", "I", "E">>
      other_votes       == OtherVotes(total_votes, dem_votes, rep_votes)
  IN  [ county          |-> county_label,
        county_fips     |-> fips,
        contest         |-> contest,
        year            |-> year,
        office_type     |-> classify_office_type(contest),
        office_rank     |-> contest_rank(contest),
        dem_candidate   |-> dem_candidate,
        rep_candidate   |-> rep_candidate,
        dem_votes       |-> dem_votes,
        rep_votes       |-> rep_votes,
        dem_pct         |-> IF total_votes # 0
                              THEN Round2(Rat(dem_votes * 100, total_votes)) ELSE 0,
        rep_pct         |-> IF total_votes # 0
                              THEN Round2(Rat(rep_votes * 100, total_votes)) ELSE 0,
        other_votes     |-> other_votes,
        total_votes     |-> total_votes,
        two_party_total |-> two_party_total,
        margin          |-> margin,
        margin_pct      |-> margin_pct,
        winner          |-> winner,
        competitiveness |-> competitiveness_from_margin(signed_margin_pct),
        all_parties     |-> AllParties(party_rows) ]

(***************************************************************************)
(* Validator: independent re-derivation of the rating                      *)
(***************************************************************************)
\* Python's None where a str is expected; no str equals it.
None == <<"None">>

to_scale_map(payload) ==
  LET scale == payload.categorization_system.competitiveness_scale
  IN  [party \in DOMAIN scale |->
        LET entries == scale[party]
        IN  [c \in {entries[i].category : i \in DOMAIN entries} |->
              LET last == CHOOSE i \in DOMAIN entries :
                            /\ entries[i].category = c
                            /\ \A j \in DOMAIN entries :
                                 entries[j].category = c => j <= i
              IN  entries[last].color]]

expected_competitiveness(dem_votes, rep_votes, total_votes, scale_map) ==
  LET hundredths        == IF total_votes > 0
                             THEN Round2(Rat((dem_votes - rep_votes) * 100, total_votes))
                             ELSE 0
      signed_margin_pct == Rat(hundredths, 100)
      abs_margin        == RatAbs(signed_margin_pct)
      dem               == RatLess(Rat(0, 1), signed_margin_pct)
      party             == IF dem THEN <<"D", "e", "m", "o", "c", "r", "a", "t", "i", "c">> ELSE <<"R", "e", "p", "u", "b", "l", "i", "c", "a", "n">>
      prefix            == IF dem THEN <<"D">> ELSE <<"R">>
      category          ==
        IF RatLess(abs_margin, Rat(1, 1)) THEN <<"T", "i", "l", "t">>
        ELSE IF RatLess(abs_margin, Rat(11, 2)) THEN <<"L", "e", "a", "n">>
        ELSE IF RatLess(abs_margin, Rat(10, 1)) THEN <<"L", "i", "k", "e", "l", "y">>
        ELSE IF RatLess(abs_margin, Rat(20, 1)) THEN <<"S", "a", "f", "e">>
        ELSE IF RatLess(abs_margin, Rat(30, 1)) THEN <<"S", "t", "r", "o", "n", "g", "h", "o", "l", "d">>
        ELSE IF RatLess(abs_margin, Rat(40, 1)) THEN <<"D", "o", "m", "i", "n", "a", "n", "t">>
        ELSE <<"A", "n", "n", "i", "h", "i", "l", "a", "t", "i", "o", "n">>
  IN  IF RatLess(abs_margin, Rat(1, 2))
        THEN [category |-> <<"T", "o", "s", "s", "u", "p">>, party |-> <<"T", "o", "s", "s", "u", "p">>,
              code |-> <<"T", "O", "S", "S", "U", "P">>,
              color |-> scale_map[<<"T", "o", "s", "s", "u", "p">>][<<"T", "o", "s", "s", "u", "p">>]]
        ELSE [category |-> category, party |-> party,
              code |-> prefix \o <<"_">> \o Upper(category),
              color |-> scale_map[party][category]]

(***************************************************************************)
(* Inputs of a run                                                         *)
(***************************************************************************)
\* Most rows the two election files of a run hold together.
MaxRows == 3

\* Most validator invocations after one aggregator run.
MaxValidatorRuns == 2

\* Rows of the boundary shapefile (GEOID20, NAMELSAD20) used by the model.
SHAPE_ROWS ==
  << [geoid |-> <<"5", "1", "0", "1", "9">>, namelsad |-> <<"B", "e", "d", "f", "o", "r", "d", " ", "C", "o", "u", "n", "t", "y">>],
     [geoid |-> <<"5", "1", "0", "8", "3">>, namelsad |-> <<"H", "a", "l", "i", "f", "a", "x", " ", "C", "o", "u", "n", "t", "y">>],
     [geoid |-> <<"5", "1", "6", "8", "3">>, namelsad |-> <<"M", "a", "n", "a", "s", "s", "a", "s", " ", "c", "i", "t", "y">>] >>

\* What may be found at SHAPE_PATH: the shapefile, or nothing.
ShapeSources ==
  { [exists |-> TRUE, rows |-> SHAPE_ROWS],
    [exists |-> FALSE, rows |-> <<>>] }

CsvRow(county, office, party, candidate, votes) ==
  [county |-> county, office |-> office, party |-> party,
   candidate |-> candidate, votes |-> votes]

\* Lines an older extract may hold: a locality under its historical name, the
\* same locality under its current name, a name the registry does not know,
\* and a statewide total line.
OlderFileRows ==
  { CsvRow(<<"B", "e", "d", "f", "o", "r", "d", " ", "C", "i", "t", "y">>, <<"P", "r", "e", "s", "i", "d", "e", "n", "t">>, <<"D", "e", "m", "o", "c", "r", "a", "t", "i", "c">>, <<"W", ".", " ", "J", ".", " ", "C", "l", "i", "n", "t", "o", "n">>, <<"6", "0", ",", "0", "0", "0">>),
    CsvRow(<<" ", "B", "e", "d", "f", "o", "r", "d", " ", "C", "o", "u", "n", "t", "y">>, <<"P", "r", "e", "s", "i", "d", "e", "n", "t">>, <<"R", "e", "p", "u", "b", "l", "i", "c", "a", "n">>, <<"R", ".", " ", "J", ".", " ", "D", "o", "l", "e">>, <<"4", "0", "0", "0", "0">>),
    CsvRow(<<"N", "o", "w", "h", "e", "r", "e", " ", "C", "o", "u", "n", "t", "y">>, <<"P", "r", "e", "s", "i", "d", "e", "n", "t">>, <<"D", "e", "m", "o", "c", "r", "a", "t", "i", "c">>, <<"W", ".", " ", "J", ".", " ", "C", "l", "i", "n", "t", "o", "n">>, <<"1">>),
    CsvRow(<<"T", "o", "t", "a", "l">>, <<"P", "r", "e", "s", "i", "d", "e", "n", "t">>, <<"D", "e", "m", "o", "c", "r", "a", "t", "i", "c">>, <<"W", ".", " ", "J", ".", " ", "C", "l", "i", "n", "t", "o", "n">>, <<"6", "0", ",", "0", "0", "1">>) }

\* Lines a recent extract may hold.
RecentFileRows ==
  { CsvRow(<<"B", "e", "d", "f", "o", "r", "d", " ", "C", "o", "u", "n", "t", "y">>, <<"P", "r", "e", "s", "i", "d", "e", "n", "t">>, <<"D", "e", "m", "o", "c", "r", "a", "t", "i", "c">>, <<"J", "o", "s", "e", "p", "h", " ", "R", ".", " ", "B", "i", "d", "e", "n">>, <<"6", "0", ",", "0", "0", "0">>),
    CsvRow(<<"B", "e", "d", "f", "o", "r", "d", " ", "C", "o", "u", "n", "t", "y">>, <<"P", "r", "e", "s", "i", "d", "e", "n", "t">>, <<"R", "e", "p", "u", "b", "l", "i", "c", "a", "n">>, <<"D", "o", "n", "a", "l", "d", " ", "J", ".", " ", "T", "r", "u", "m", "p">>, <<"4", "0", "0", "0", "0">>),
    CsvRow(<<"B", "e", "d", "f", "o", "r", "d", " ", "C", "o", "u", "n", "t", "y">>, <<"P", "r", "e", "s", "i", "d", "e", "n", "t">>, <<"L", "i", "b", "e", "r", "t", "a", "r", "i", "a", "n">>, <<"J", "o", " ", "J", "o", "r", "g", "e", "n", "s", "e", "n">>, <<"6", "0", "0", "0", "0", ".", "0">>),
    CsvRow(<<"H", "a", "l", "i", "f", "a", "x", " ", "C", "o", "u", "n", "t", "y">>, <<"U", "S", " ", "S", "e", "n", "a", "t", "e">>, <<"R", "e", "p", "u", "b", "l", "i", "c", "a", "n">>, <<"D", ".", " ", "M", ".", " ", "G", "a", "d", "e">>, <<>>),
    CsvRow(<<"N", "o", "w", "h", "e", "r", "e", " ", "C", "o", "u", "n", "t", "y">>, <<"P", "r", "e", "s", "i", "d", "e", "n", "t">>, <<"R", "e", "p", "u", "b", "l", "i", "c", "a", "n">>, <<"D", "o", "n", "a", "l", "d", " ", "J", ".", " ", "T", "r", "u", "m", "p">>, <<"1">>),
    CsvRow(<<"B", "e", "d", "f", "o", "r", "d", " ", "C", "o", "u", "n", "t", "y">>, <<"S", "h", "e", "r", "i", "f", "f">>, <<"I", "n", "d", "e", "p", "e", "n", "d", "e", "n", "t">>, <<"M", ".", " ", "W", ".", " ", "M", "i", "l", "l", "e", "r">>, <<"7">>) }

OLDER_FILE ==
  <<"1", "9", "9", "6", "1", "1", "0", "5", "_", "_", "v", "a", "_", "_", "g", "e", "n", "e", "r", "a", "l", "_", "_", "c", "o", "u", "n", "t", "y", ".", "c", "s", "v">>

RECENT_FILE ==
  <<"2", "0", "2", "0", "1", "1", "0", "3", "_", "_", "v", "a", "_", "_", "g", "e", "n", "e", "r", "a", "l", "_", "_", "c", "o", "u", "n", "t", "y", ".", "c", "s", "v">>

\* A file of the directory that lacks the votes column.
HEADERLESS_FILE ==
  [name       |-> <<"2", "0", "1", "2", "1", "1", "0", "6", "_", "_", "v", "a", "_", "_", "g", "e", "n", "e", "r", "a", "l", "_", "_", "c", "o", "u", "n", "t", "y", ".", "c", "s", "v">>,
   fieldnames |-> {"county", "office", "party", "candidate"},
   rows       |-> << [county |-> <<"B", "e", "d", "f", "o", "r", "d", " ", "C", "o", "u", "n", "t", "y">>, office |-> <<"P", "r", "e", "s", "i", "d", "e", "n", "t">>,
                      party |-> <<"D", "e", "m", "o", "c", "r", "a", "t", "i", "c">>, candidate |-> <<"B", "a", "r", "a", "c", "k", " ", "O", "b", "a", "m", "a">>] >>]

\* Sequences over S of length at most n
SeqsUpTo(S, n) == UNION {[1..k -> S] : k \in 0..n}

\* Directories of election files a run may find.
InputDirectories ==
  { { [name |-> OLDER_FILE, fieldnames |-> REQUIRED_COLUMNS, rows |-> a],
      [name |-> RECENT_FILE, fieldnames |-> REQUIRED_COLUMNS, rows |-> b],
      HEADERLESS_FILE } :
    <<a, b>> \in { p \in SeqsUpTo(OlderFileRows, MaxRows)
                           \X SeqsUpTo(RecentFileRows, MaxRows) :
                   Len(p[1]) + Len(p[2]) <= MaxRows } }

\* Values of date.today()
Dates ==
  { <<"2", "0", "2", "6", "-", "0", "3", "-", "0", "1">> }

(***************************************************************************)
(* State                                                                   *)
(***************************************************************************)
VARIABLES
  shapefile,             \* SHAPE_PATH: whether it exists, and its rows
  csv_files,             \* OPENELECTIONS_DIR: the set of election files
  today,                 \* date.today()
  pc,                    \* position of the aggregator's main()
  county_map,            \* main: normalized name -> geoid
  county_info,           \* main: geoid -> display record
  all_rows,              \* main: Raw Records returned by load_all_rows
  source_files,          \* main: file manifest returned by load_all_rows
  row_i,                 \* main: rows consumed by the grouping loop
  grouped,               \* main: (year, contest, geoid) -> list of rows
  unmatched,             \* main: year -> set of raw locality strings
  group_queue,           \* main: sorted group keys still to aggregate
  results_by_year,       \* main: the nested result mapping
  total_county_results,  \* main: County Results counted
  geojson_file,          \* GEOJSON_PATH on disk
  json_file,             \* JSON_PATH on disk
  last_written,          \* JSON_PATH as the previous aggregator run left it
  v_runs,                \* validator invocations so far
  v_fix,                 \* --fix flag of the last validator invocation
  v_result,              \* exit status of the last validator invocation
  v_mismatches,          \* mismatches list of the last validator invocation
  v_pc,                  \* position of the validator's validate_or_fix
  v_payload,             \* validator: the payload it is about to write back
  input,                 \* argument of a pure function under test
  output,                \* its result
  previous,              \* the result before the last application
  fpc                    \* position of the pure-function harness

inputVars == <<shapefile, csv_files, today>>

mainVars ==
  <<pc, county_map, county_info, all_rows, source_files, row_i, grouped,
    unmatched, group_queue, results_by_year, total_county_results>>

diskVars == <<geojson_file, json_file>>

validatorVars == <<v_runs, v_fix, v_result, v_mismatches, v_pc, v_payload>>

historyVars == <<last_written>>

fnVars == <<input, output, previous, fpc>>

vars == <<inputVars, mainVars, diskVars, validatorVars, historyVars, fnVars>>

(***************************************************************************)
(* Record Loader                                                           *)
(***************************************************************************)
\* Body of the per-row loop of load_all_rows: kind "skip" for a row that hits
\* a `continue`, "raise" when parse_votes raises, and "row" with the Raw
\* Record otherwise.
LoadRow(file_name, year, row) ==
  LET county       == Strip(row.county)
      county_clean == clean_county_for_matching(county)
      norm         == normalize_county(county_clean)
      contest      == canonical_contest(Strip(row.office))
  IN  IF county = <<>> THEN [kind |-> "skip"]
      ELSE IF norm \in TOTAL_MARKERS THEN [kind |-> "skip"]
      ELSE IF contest = <<>> THEN [kind |-> "skip"]
      ELSE IF contest \notin ALLOWED_CONTESTS THEN [kind |-> "skip"]
      ELSE IF ParseVotesRaises(row.votes) THEN [kind |-> "raise"]
      ELSE [ kind |-> "row",
             row  |->
               [ source_file  |-> file_name,
                 year         |-> year,
                 contest      |-> contest,
                 county_raw   |-> county,
                 county_clean |-> county_clean,
                 county_norm  |-> norm,
                 candidate    |-> canonical_candidate_name(Strip(row.candidate)),
                 party        |-> Strip(row.party),
                 party_code   |-> party_code(row.party),
                 votes        |-> parse_votes(row.votes) ] ]

RECURSIVE LoadFiles(_, _, _, _)
\* The two nested loops of load_all_rows over the sorted files `names`,
\* continuing with row k of the first file; acc holds rows and source_files.
LoadFiles(files, names, k, acc) ==
  IF names = <<>> THEN acc
  ELSE
    LET f == CHOOSE x \in files : x.name = Head(names)
    IN  IF ~(REQUIRED_COLUMNS \subseteq f.fieldnames)
          THEN LoadFiles(files, Tail(names), 1, acc)
        ELSE IF k > Len(f.rows)
          THEN LoadFiles(files, Tail(names), 1,
                 [acc EXCEPT !.source_files = Append(@, f.name)])
        ELSE
          LET r == LoadRow(f.name, year_from_filename(f.name), f.rows[k])
          IN  IF r.kind = "raise" THEN [acc EXCEPT !.raised = TRUE]
              ELSE IF r.kind = "skip" THEN LoadFiles(files, names, k + 1, acc)
              ELSE LoadFiles(files, names, k + 1,
                     [acc EXCEPT !.rows = Append(@, r.row)])

\* Variant of load_all_rows: files whose name gives no year are left out.
load_all_rows_DatedOnly(files) ==
  LET dated == {f \in files : year_from_filename(f.name) # <<"u", "n", "k", "n", "o", "w", "n">>}
  IN  LoadFiles(dated, SortedStrings({f.name : f \in dated}), 1,
                [rows |-> <<>>, source_files |-> <<>>, raised |-> FALSE])

\* Returns rows and source_files; raised is TRUE when the call raised instead.
load_all_rows(files) ==
  LoadFiles(files, SortedStrings({f.name : f \in files}), 1,
            [rows |-> <<>>, source_files |-> <<>>, raised |-> FALSE])

(***************************************************************************)
(* Aggregator run: main() of build_geojson_and_data_json.py                *)
(***************************************************************************)
\* The file at a path that does not exist.
Absent == [state |-> "absent"]

\* The file at a path opened with mode 'w' and not yet written.
Truncated == [state |-> "truncated"]

\* The file at a path holding a completely written document.
Written(content) == [state |-> "written", content |-> content]

\* The nested dict results_by_year[year][contest][county] is held as the
\* sequence of its leaf entries in insertion order; assigning to an existing
\* (year, contest, county) replaces the value and keeps the position.
PutResult(results, year, contest, county, rec) ==
  LET e == [year |-> year, contest |-> contest, county |-> county, rec |-> rec]
      hit == {i \in DOMAIN results :
                /\ results[i].year = year
                /\ results[i].contest = contest
                /\ results[i].county = county}
  IN  IF hit = {} THEN Append(results, e)
      ELSE [i \in DOMAIN results |-> IF i \in hit THEN e ELSE results[i]]

\* Variant of AddUnmatched: the unresolved name is not recorded.
AddUnmatched_Dropped(um, year, raw) == um

\* unmatched[year].add(raw); the defaultdict is held as the sequence of its
\* items in insertion order.
AddUnmatched(um, year, raw) ==
  IF \E i \in DOMAIN um : um[i].year = year
    THEN [i \in DOMAIN um |->
           IF um[i].year = year
             THEN [um[i] EXCEPT !.names = @ \cup {raw}]
             ELSE um[i]]
    ELSE Append(um, [year |-> year, names |-> {raw}])

\* Keys of results_by_year in insertion order.
RECURSIVE YearKeys(_)
YearKeys(results) ==
  IF results = <<>> THEN <<>>
  ELSE LET rest == YearKeys(SubSeq(results, 1, Len(results) - 1))
           y    == results[Len(results)].year
       IN  IF y \in Range(rest) THEN rest ELSE Append(rest, y)

\* The payload dict main() serializes.
Payload(results, um, files, count, day) ==
  LET years_covered == SortedStrings(Range(YearKeys(results)) \ { <<"u", "n", "k", "n", "o", "w", "n">> })
      all_contests  == SortedStrings({results[i].contest : i \in DOMAIN results})
  IN  [ focus |-> "Clean geographic political patterns",
        processed_date |-> day,
        categorization_system |->
          [ competitiveness_scale |-> COMPETITIVENESS_SCALE,
            office_types |-> <<"Federal", "State", "Judicial", "Other">>,
            enhanced_features |->
              << "Competitiveness categorization for each county",
                 "Contest type classification (Federal/State/Judicial)",
                 "Office ranking system for analysis prioritization",
                 "Color coding compatible with political geography visualization" >> ],
        summary |->
          [ total_years |-> Len(years_covered),
            total_contests |-> Len(all_contests),
            total_county_results |-> count,
            years_covered |-> years_covered ],
        source_openelections_files |-> files,
        unmatched_counties |->
          [i \in DOMAIN um |->
            [year |-> um[i].year, names |-> SortedStrings(um[i].names)]],
        results_by_year |-> results ]

\* main() line 368: write_geojson_and_counties().  A missing shapefile raises
\* before anything is written.
WriteGeojsonAndCounties ==
  /\ pc = "registry"
  /\ IF ~shapefile.exists
       THEN /\ pc' = "crashed"
            /\ UNCHANGED <<county_map, county_info, geojson_file>>
       ELSE /\ geojson_file' = Written(shapefile.rows)
            /\ county_map' =
                 [key \in {normalize_county(shapefile.rows[i].namelsad) :
                             i \in DOMAIN shapefile.rows} |->
                   LET last == CHOOSE i \in DOMAIN shapefile.rows :
                                 /\ normalize_county(shapefile.rows[i].namelsad) = key
                                 /\ \A j \in DOMAIN shapefile.rows :
                                      normalize_county(shapefile.rows[j].namelsad) = key
                                        => j <= i
                   IN  shapefile.rows[last].geoid]
            /\ county_info' =
                 [g \in {shapefile.rows[i].geoid : i \in DOMAIN shapefile.rows} |->
                   LET last == CHOOSE i \in DOMAIN shapefile.rows :
                                 /\ shapefile.rows[i].geoid = g
                                 /\ \A j \in DOMAIN shapefile.rows :
                                      shapefile.rows[j].geoid = g => j <= i
                   IN  [county       |-> shapefile.rows[last].namelsad,
                        county_label |-> shapefile.rows[last].namelsad,
                        fips         |-> g]]
            /\ pc' = "load"
  /\ UNCHANGED <<all_rows, source_files, row_i, grouped, unmatched,
                 group_queue, results_by_year, total_county_results,
                 json_file>>
  /\ UNCHANGED <<inputVars, validatorVars, historyVars, fnVars>>

\* main() line 370: load_all_rows()
LoadAllRows ==
  /\ pc = "load"
  /\ LET loaded == load_all_rows(csv_files)
     IN  IF loaded.raised
           THEN /\ pc' = "crashed"
                /\ UNCHANGED <<all_rows, source_files>>
           ELSE /\ pc' = "group"
                /\ all_rows' = loaded.rows
                /\ source_files' = loaded.source_files
  /\ UNCHANGED <<county_map, county_info, row_i, grouped, unmatched,
                 group_queue, results_by_year, total_county_results>>
  /\ UNCHANGED <<inputVars, diskVars, validatorVars, historyVars, fnVars>>

\* Variant of ResolveGeoid: the historical-alias table is not consulted.
ResolveGeoid_NoAlias(map, r) == Get(map, r.county_norm, None)

\* The registry lookup of main() lines 376-377 for one row: the geoid, or
\* None when county_map.get() finds nothing.
ResolveGeoid(map, r) ==
  LET county_norm == Get(HISTORICAL_TO_CURRENT, r.county_norm, r.county_norm)
  IN  Get(map, county_norm, None)

\* main() lines 375-381: one iteration of the grouping loop
GroupRow ==
  /\ pc = "group"
  /\ row_i < Len(all_rows)
  /\ LET r     == all_rows[row_i + 1]
         geoid == ResolveGeoid(county_map, r)
         key   == <<r.year, r.contest, geoid>>
     IN  IF geoid = None \/ geoid = <<>>
           THEN /\ unmatched' = AddUnmatched(unmatched, r.year, r.county_raw)
                /\ UNCHANGED grouped
           ELSE /\ grouped' =
                     IF key \in DOMAIN grouped
                       THEN [grouped EXCEPT ![key] = Append(@, r)]
                       ELSE grouped @@ (key :> <<r>>)
                /\ UNCHANGED unmatched
  /\ row_i' = row_i + 1
  /\ UNCHANGED <<pc, county_map, county_info, all_rows, source_files,
                 group_queue, results_by_year, total_county_results>>
  /\ UNCHANGED <<inputVars, diskVars, validatorVars, historyVars, fnVars>>

\* main() line 386: the grouping loop is over; sort the group keys
SortGroups ==
  /\ pc = "group"
  /\ row_i = Len(all_rows)
  /\ group_queue' = SortedTuples(DOMAIN grouped)
  /\ pc' = "build"
  /\ UNCHANGED <<county_map, county_info, all_rows, source_files, row_i,
                 grouped, unmatched, results_by_year, total_county_results>>
  /\ UNCHANGED <<inputVars, diskVars, validatorVars, historyVars, fnVars>>

\* main() lines 386-393: one iteration of the aggregation loop
BuildCountyRecord ==
  /\ pc = "build"
  /\ group_queue # <<>>
  /\ LET key           == Head(group_queue)
         year          == key[1]
         contest       == key[2]
         geoid         == key[3]
         county_label  == county_info[geoid].county
         county_record == build_county_record(year, contest, county_label,
                                              geoid, grouped[key])
     IN  results_by_year' =
           PutResult(results_by_year, year, contest, county_label, county_record)
  /\ total_county_results' = total_county_results + 1
  /\ group_queue' = Tail(group_queue)
  /\ UNCHANGED <<pc, county_map, county_info, all_rows, source_files, row_i,
                 grouped, unmatched>>
  /\ UNCHANGED <<inputVars, diskVars, validatorVars, historyVars, fnVars>>

\* Variant of OpenJson: the document is opened while groups are still
\* waiting in the aggregation loop.
OpenJson_BeforeLoopEnd ==
  /\ pc = "build"
  /\ json_file' = Truncated
  /\ pc' = "dump"
  /\ UNCHANGED <<county_map, county_info, all_rows, source_files, row_i,
                 grouped, unmatched, group_queue, results_by_year,
                 total_county_results, geojson_file>>
  /\ UNCHANGED <<inputVars, validatorVars, historyVars, fnVars>>

\* main() line 422: JSON_PATH.open('w') truncates the document
OpenJson ==
  /\ pc = "build"
  /\ group_queue = <<>>
  /\ json_file' = Truncated
  /\ pc' = "dump"
  /\ UNCHANGED <<county_map, county_info, all_rows, source_files, row_i,
                 grouped, unmatched, group_queue, results_by_year,
                 total_county_results, geojson_file>>
  /\ UNCHANGED <<inputVars, validatorVars, historyVars, fnVars>>

\* main() lines 423-431: json.dump and the closing prints; the print of
\* years_covered[0] raises IndexError when no dated year has a result
DumpJson ==
  /\ pc = "dump"
  /\ LET payload == Payload(results_by_year, unmatched, source_files,
                            total_county_results, today)
     IN  /\ json_file' = Written(payload)
         /\ pc' = IF payload.summary.years_covered = <<>>
                    THEN "crashed" ELSE "done"
  /\ UNCHANGED <<county_map, county_info, all_rows, source_files, row_i,
                 grouped, unmatched, group_queue, results_by_year,
                 total_county_results, geojson_file>>
  /\ UNCHANGED <<inputVars, validatorVars, historyVars, fnVars>>

(***************************************************************************)
(* Validator run: main() of validate_rating_colors.py                      *)
(***************************************************************************)
\* Indices of the leaf entries in the order the three nested `for` loops of
\* validate_or_fix visit them: years, then contests, then counties, each in
\* insertion order.
RECURSIVE NestedOrder(_, _)
NestedOrder(results, todo) ==
  IF todo = {} THEN <<>>
  ELSE
    LET FirstYear(i) ==
          CHOOSE j \in DOMAIN results :
            /\ results[j].year = results[i].year
            /\ \A k \in 1..(j - 1) : results[k].year # results[i].year
        FirstContest(i) ==
          CHOOSE j \in DOMAIN results :
            /\ results[j].year = results[i].year
            /\ results[j].contest = results[i].contest
            /\ \A k \in 1..(j - 1) :
                 ~(results[k].year = results[i].year
                   /\ results[k].contest = results[i].contest)
        Before(i, j) ==
          \/ FirstYear(i) < FirstYear(j)
          \/ FirstYear(i) = FirstYear(j) /\ FirstContest(i) < FirstContest(j)
          \/ FirstYear(i) = FirstYear(j) /\ FirstContest(i) = FirstContest(j)
             /\ i < j
        m == CHOOSE i \in todo : \A j \in todo \ {i} : Before(i, j)
    IN  <<m>> \o NestedOrder(results, todo \ {m})

\* JSON null as the value of a key.
JsonNull == [json |-> "null"]

\* int(rec.get(key, 0) or 0) for a key that holds an integer or is missing
IntField(rec, key) == IF key \in DOMAIN rec THEN rec[key] ELSE 0

\* payload.get("results_by_year", {})
ResultsOf(payload) ==
  IF "results_by_year" \in DOMAIN payload THEN payload.results_by_year ELSE <<>>

\* (rec.get("competitiveness") or {}).get(key): None when the block is
\* missing, null or empty, or has no such key.
ActualField(rec, key) ==
  IF /\ "competitiveness" \in DOMAIN rec
     /\ rec.competitiveness # JsonNull
     /\ key \in DOMAIN rec.competitiveness
  THEN rec.competitiveness[key]
  ELSE None

\* Variant of Diffs: a key the block does not hold is not compared.
Diffs_PresentOnly(rec, expected) ==
  LET keys == <<"category", "party", "code", "color">>
      hit  == SelectSeq(keys, LAMBDA k : /\ ActualField(rec, k) # None
                                         /\ ActualField(rec, k) # expected[k])
  IN  [i \in DOMAIN hit |-> <<hit[i], ActualField(rec, hit[i]), expected[hit[i]]>>]

\* The diffs list validate_or_fix builds for one record.
Diffs(rec, expected) ==
  LET keys == <<"category", "party", "code", "color">>
      hit  == SelectSeq(keys, LAMBDA k : ActualField(rec, k) # expected[k])
  IN  [i \in DOMAIN hit |-> <<hit[i], ActualField(rec, hit[i]), expected[hit[i]]>>]

\* Variant of FixRecord: only the color of a block the record already holds
\* is replaced.
FixRecord_ColorOnly(rec, expected) ==
  IF /\ "competitiveness" \in DOMAIN rec
     /\ rec.competitiveness # JsonNull
     /\ rec.competitiveness # <<>>
    THEN [k \in DOMAIN rec |->
           IF k = "competitiveness"
             THEN [j \in DOMAIN rec[k] \cup {"color"} |->
                    IF j = "color" THEN expected.color ELSE rec[k][j]]
             ELSE rec[k]]
    ELSE [k \in DOMAIN rec \cup {"competitiveness"} |->
           IF k = "competitiveness" THEN expected ELSE rec[k]]

\* Variant of FixRecord: the expected block is stored in place of the record.
FixRecord_WholeRecord(rec, expected) == expected

\* rec["competitiveness"] = expected
FixRecord(rec, expected) ==
  [k \in DOMAIN rec \cup {"competitiveness"} |->
    IF k = "competitiveness" THEN expected ELSE rec[k]]

\* validate_or_fix raises before it reports: to_scale_map finds no
\* categorization_system or no competitiveness_scale in the payload (KeyError).
ValidateRaises(payload) ==
  \/ "categorization_system" \notin DOMAIN payload
  \/ "competitiveness_scale" \notin DOMAIN payload.categorization_system

\* validate_or_fix(path, fix) on a document holding `payload`, when it does
\* not raise: the value it returns, its mismatches list and the payload it
\* holds after the loop, which a --fix run with mismatches writes back.
validate_or_fix(payload, fix) ==
  LET scale_map   == to_scale_map(payload)
      results     == ResultsOf(payload)
      Expected(i) == expected_competitiveness(IntField(results[i].rec, "dem_votes"),
                                              IntField(results[i].rec, "rep_votes"),
                                              IntField(results[i].rec, "total_votes"),
                                              scale_map)
      order       == NestedOrder(results, DOMAIN results)
      bad         == SelectSeq(order,
                       LAMBDA i : Diffs(results[i].rec, Expected(i)) # <<>>)
      mismatches  == [k \in DOMAIN bad |->
                       <<results[bad[k]].year, results[bad[k]].contest,
                         results[bad[k]].county,
                         Diffs(results[bad[k]].rec, Expected(bad[k]))>>]
      fixed       == [i \in DOMAIN results |->
                       IF i \in Range(bad)
                         THEN [results[i] EXCEPT
                                 !.rec = FixRecord(results[i].rec, Expected(i))]
                         ELSE results[i]]
  IN  [ returns    |-> IF mismatches = <<>> THEN 0 ELSE IF fix THEN 0 ELSE 1,
        mismatches |-> mismatches,
        file       |-> IF fix /\ mismatches # <<>>
                         THEN [payload EXCEPT !.results_by_year = fixed]
                         ELSE payload ]

\* v_result before the first validator run.
NoResult == [raised |-> FALSE, status |-> -1]

\* The process returned `status` from main() through sys.exit.
Exited(status) == [raised |-> FALSE, status |-> status]

\* The process ended in an uncaught exception; the interpreter exits with 1.
Raised == [raised |-> TRUE, status |-> 1]

\* One invocation of the validator, with or without --fix, once the
\* aggregator process has ended: main() and validate_or_fix up to line 90.
\* A report-only run, and a --fix run that found nothing, end here; a --fix
\* run with mismatches opens the path with mode 'w', which truncates it.
ValidatorMain(fix) ==
  /\ pc \in {"done", "crashed"}
  /\ v_pc = "idle"
  /\ v_runs < MaxValidatorRuns
  /\ v_runs' = v_runs + 1
  /\ v_fix' = fix
  /\ IF json_file.state = "absent"
       THEN /\ v_result' = Exited(2)
            /\ v_mismatches' = <<>>
            /\ UNCHANGED <<json_file, v_pc, v_payload>>
     ELSE IF \/ json_file.state = "truncated"
             \/ ValidateRaises(json_file.content)
       THEN /\ v_result' = Raised
            /\ v_mismatches' = <<>>
            /\ UNCHANGED <<json_file, v_pc, v_payload>>
     ELSE LET out == validate_or_fix(json_file.content, fix)
          IN  /\ v_mismatches' = out.mismatches
              /\ IF fix /\ out.mismatches # <<>>
                   THEN /\ json_file' = Truncated
                        /\ v_payload' = out.file
                        /\ v_pc' = "dump"
                        /\ v_result' = NoResult
                   ELSE /\ v_result' = Exited(out.returns)
                        /\ UNCHANGED <<json_file, v_pc, v_payload>>
  /\ UNCHANGED geojson_file
  /\ UNCHANGED <<inputVars, mainVars, historyVars, fnVars>>

\* validate_or_fix lines 92-108 of a --fix run with mismatches: json.dump
\* writes the corrected payload, and the function returns 0.
ValidatorDump ==
  /\ v_pc = "dump"
  /\ json_file' = Written(v_payload)
  /\ v_result' = Exited(0)
  /\ v_pc' = "idle"
  /\ UNCHANGED <<v_runs, v_fix, v_mismatches, v_payload, geojson_file>>
  /\ UNCHANGED <<inputVars, mainVars, historyVars, fnVars>>

(***************************************************************************)
(* Specification of an aggregator run followed by validator runs           *)
(***************************************************************************)
MainIdle ==
  /\ county_map = <<>>
  /\ county_info = <<>>
  /\ all_rows = <<>>
  /\ source_files = <<>>
  /\ row_i = 0
  /\ grouped = <<>>
  /\ unmatched = <<>>
  /\ group_queue = <<>>
  /\ results_by_year = <<>>
  /\ total_county_results = 0
  /\ geojson_file = Absent
  /\ json_file = Absent
  /\ last_written = Absent
  /\ v_runs = 0
  /\ v_fix = FALSE
  /\ v_result = NoResult
  /\ v_mismatches = <<>>
  /\ v_pc = "idle"
  /\ v_payload = <<>>

FnIdle ==
  /\ input = <<>>
  /\ output = <<>>
  /\ previous = <<>>
  /\ fpc = "idle"

Init ==
  /\ shapefile \in ShapeSources
  /\ csv_files \in InputDirectories
  /\ today \in Dates
  /\ pc = "registry"
  /\ MainIdle
  /\ FnIdle

Next ==
  \/ WriteGeojsonAndCounties
  \/ LoadAllRows
  \/ GroupRow
  \/ SortGroups
  \/ BuildCountyRecord
  \/ OpenJson
  \/ DumpJson
  \/ \E fix \in BOOLEAN : ValidatorMain(fix)
  \/ ValidatorDump

Spec == Init /\ [][Next]_vars

(***************************************************************************)
(* Specification of two aggregator runs over the same inputs               *)
(***************************************************************************)
\* A shapefile that also holds an independent city: the GEOID20 of a city
\* follows those of all the counties.
CITY_SHAPE_ROWS ==
  SHAPE_ROWS \o
    << [geoid |-> <<"5", "1", "5", "1", "0">>, namelsad |-> <<"A", "l", "e", "x", "a", "n", "d", "r", "i", "a", " ", "c", "i", "t", "y">>] >>

\* A file of the directory whose name has one underscore after the date, so
\* that the pattern of year_from_filename does not match it.
UNDATED_FILE ==
  <<"2", "0", "1", "6", "1", "1", "0", "8", "_", "v", "a", "_", "g", "e", "n", "e", "r", "a", "l", ".", "c", "s", "v">>

\* Lines the undated extract may hold: a city and a county of the registry, a
\* name the registry does not know, and a statewide total line.
UndatedFileRows ==
  { CsvRow(<<"A", "l", "e", "x", "a", "n", "d", "r", "i", "a", " ", "c", "i", "t", "y">>, <<"P", "r", "e", "s", "i", "d", "e", "n", "t">>, <<"D", "e", "m", "o", "c", "r", "a", "t", "i", "c">>, <<"H", ".", " ", "R", ".", " ", "C", "l", "i", "n", "t", "o", "n">>, <<"1", "0">>),
    CsvRow(<<"B", "e", "d", "f", "o", "r", "d", " ", "C", "o", "u", "n", "t", "y">>, <<"P", "r", "e", "s", "i", "d", "e", "n", "t">>, <<"R", "e", "p", "u", "b", "l", "i", "c", "a", "n">>, <<"D", ".", " ", "J", ".", " ", "T", "r", "u", "m", "p">>, <<"7">>),
    CsvRow(<<"N", "o", "w", "h", "e", "r", "e", " ", "C", "o", "u", "n", "t", "y">>, <<"P", "r", "e", "s", "i", "d", "e", "n", "t">>, <<"D", "e", "m", "o", "c", "r", "a", "t", "i", "c">>, <<"H", ".", " ", "R", ".", " ", "C", "l", "i", "n", "t", "o", "n">>, <<"1">>),
    CsvRow(<<"T", "o", "t", "a", "l">>, <<"P", "r", "e", "s", "i", "d", "e", "n", "t">>, <<"D", "e", "m", "o", "c", "r", "a", "t", "i", "c">>, <<"H", ".", " ", "R", ".", " ", "C", "l", "i", "n", "t", "o", "n">>, <<"1", "1">>) }

\* Lines the dated extract next to it may hold.
DatedFileRows ==
  { CsvRow(<<"B", "e", "d", "f", "o", "r", "d", " ", "C", "o", "u", "n", "t", "y">>, <<"P", "r", "e", "s", "i", "d", "e", "n", "t">>, <<"D", "e", "m", "o", "c", "r", "a", "t", "i", "c">>, <<"J", "o", "s", "e", "p", "h", " ", "R", ".", " ", "B", "i", "d", "e", "n">>, <<"6", "0", ",", "0", "0", "0">>),
    CsvRow(<<"A", "l", "e", "x", "a", "n", "d", "r", "i", "a", " ", "c", "i", "t", "y">>, <<"P", "r", "e", "s", "i", "d", "e", "n", "t">>, <<"R", "e", "p", "u", "b", "l", "i", "c", "a", "n">>, <<"D", "o", "n", "a", "l", "d", " ", "J", ".", " ", "T", "r", "u", "m", "p">>, <<"4", "0", "0", "0", "0">>),
    CsvRow(<<"N", "o", "w", "h", "e", "r", "e", " ", "C", "o", "u", "n", "t", "y">>, <<"P", "r", "e", "s", "i", "d", "e", "n", "t">>, <<"R", "e", "p", "u", "b", "l", "i", "c", "a", "n">>, <<"D", "o", "n", "a", "l", "d", " ", "J", ".", " ", "T", "r", "u", "m", "p">>, <<"1">>),
    CsvRow(<<"B", "e", "d", "f", "o", "r", "d", " ", "C", "o", "u", "n", "t", "y">>, <<"P", "r", "e", "s", "i", "d", "e", "n", "t">>, <<"L", "i", "b", "e", "r", "t", "a", "r", "i", "a", "n">>, <<"J", "o", " ", "J", "o", "r", "g", "e", "n", "s", "e", "n">>, <<"1", "0", "0", ",", "0", "0", "0">>) }

\* Directories holding an undated and a dated extract.
MixedDirectories ==
  { { [name |-> UNDATED_FILE, fieldnames |-> REQUIRED_COLUMNS, rows |-> a],
      [name |-> RECENT_FILE, fieldnames |-> REQUIRED_COLUMNS, rows |-> b] } :
    <<a, b>> \in { p \in SeqsUpTo(UndatedFileRows, MaxRows)
                           \X SeqsUpTo(DatedFileRows, MaxRows) :
                   Len(p[1]) + Len(p[2]) <= MaxRows } }

\* Values of date.today() on the day of the first run and on the next day.
LaterDates ==
  Dates \cup { <<"2", "0", "2", "6", "-", "0", "3", "-", "0", "2">> }

\* The script is started again after its first process has ended and left a
\* document, with the input files and the shapefile as they were; main()
\* starts from fresh locals and the clock may have moved on.
RunAgain ==
  /\ pc \in {"done", "crashed"}
  /\ json_file.state = "written"
  /\ last_written = Absent
  /\ v_runs = 0
  /\ last_written' = json_file
  /\ today' \in {d \in LaterDates : ~StrLess(d, today)}
  /\ pc' = "registry"
  /\ county_map' = <<>>
  /\ county_info' = <<>>
  /\ all_rows' = <<>>
  /\ source_files' = <<>>
  /\ row_i' = 0
  /\ grouped' = <<>>
  /\ unmatched' = <<>>
  /\ group_queue' = <<>>
  /\ results_by_year' = <<>>
  /\ total_county_results' = 0
  /\ UNCHANGED <<shapefile, csv_files>>
  /\ UNCHANGED <<diskVars, validatorVars, fnVars>>

InitRerun ==
  /\ shapefile = [exists |-> TRUE, rows |-> CITY_SHAPE_ROWS]
  /\ csv_files \in MixedDirectories
  /\ today \in Dates
  /\ pc = "registry"
  /\ MainIdle
  /\ FnIdle

NextRerun ==
  \/ Next
  \/ RunAgain

SpecRerun == InitRerun /\ [][NextRerun]_vars

(***************************************************************************)
(* An older extract whose locality names carry congressional-district tags *)
(***************************************************************************)
\* Lines of an extract that splits a locality by congressional district: one
\* county under three spellings, a statewide total line carrying a district
\* tag, and a line whose vote text has a leading minus sign.
DistrictFileRows ==
  { CsvRow(<<"B", "e", "d", "f", "o", "r", "d", " ", "C", "o", "u", "n", "t", "y", " ", "(", "C", "D", " ", "0", "5", ")">>, <<"P", "r", "e", "s", "i", "d", "e", "n", "t">>, <<"D", "e", "m", "o", "c", "r", "a", "t", "i", "c">>, <<"W", ".", " ", "J", ".", " ", "C", "l", "i", "n", "t", "o", "n">>, <<"3", "0", ",", "0", "0", "0">>),
    CsvRow(<<"B", "e", "d", "f", "o", "r", "d", " ", "C", "o", "u", "n", "t", "y", " ", "(", "c", "d", " ", "6", ")">>, <<"P", "r", "e", "s", "i", "d", "e", "n", "t">>, <<"D", "e", "m", "o", "c", "r", "a", "t", "i", "c">>, <<"W", ".", " ", "J", ".", " ", "C", "l", "i", "n", "t", "o", "n">>, <<"2", "0", "0", "0", "0">>),
    CsvRow(<<"B", "E", "D", "F", "O", "R", "D", " ", "C", "O", "U", "N", "T", "Y">>, <<"P", "r", "e", "s", "i", "d", "e", "n", "t">>, <<"R", "e", "p", "u", "b", "l", "i", "c", "a", "n">>, <<"R", ".", " ", "J", ".", " ", "D", "o", "l", "e">>, <<"4", "0", "0", "0", "0">>),
    CsvRow(<<"B", "e", "d", "f", "o", "r", "d", " ", "C", "o", "u", "n", "t", "y", " ", "(", "C", "D", " ", "0", "5", ")">>, <<"P", "r", "e", "s", "i", "d", "e", "n", "t">>, <<"L", "i", "b", "e", "r", "t", "a", "r", "i", "a", "n">>, <<"H", ".", " ", "B", "r", "o", "w", "n", "e">>, <<"1", "0", "0", ",", "0", "0", "0">>),
    CsvRow(<<"T", "o", "t", "a", "l", " ", "(", "C", "D", " ", "1", ")">>, <<"P", "r", "e", "s", "i", "d", "e", "n", "t">>, <<"D", "e", "m", "o", "c", "r", "a", "t", "i", "c">>, <<"W", ".", " ", "J", ".", " ", "C", "l", "i", "n", "t", "o", "n">>, <<"5", "0", ",", "0", "0", "0">>),
    CsvRow(<<"H", "a", "l", "i", "f", "a", "x", " ", "C", "o", "u", "n", "t", "y", " ", "(", "c", "d", " ", "0", "9", ")">>, <<"P", "r", "e", "s", "i", "d", "e", "n", "t">>, <<"R", "e", "p", "u", "b", "l", "i", "c", "a", "n">>, <<"R", ".", " ", "J", ".", " ", "D", "o", "l", "e">>, <<"-", "7">>) }

\* Directories holding that one extract.
DistrictDirectories ==
  { { [name |-> OLDER_FILE, fieldnames |-> REQUIRED_COLUMNS, rows |-> a] } :
    a \in SeqsUpTo(DistrictFileRows, MaxRows) }

InitDistricts ==
  /\ shapefile = [exists |-> TRUE, rows |-> SHAPE_ROWS]
  /\ csv_files \in DistrictDirectories
  /\ today \in Dates
  /\ pc = "registry"
  /\ MainIdle
  /\ FnIdle

SpecDistricts == InitDistricts /\ [][Next]_vars

(***************************************************************************)
(* Boundary sources whose rows repeat a locality id or a locality name     *)
(***************************************************************************)
\* Most rows of the boundary source.
MaxShapeRows == 3

\* Rows a boundary source may hold: write_geojson_and_counties takes the
\* rows as they come and checks neither ids nor names for repeats.
ShapeRowPool ==
  { [geoid |-> g, namelsad |-> n] :
      g \in { <<"5", "1", "0", "1", "9">>, <<"5", "1", "0", "8", "3">> },
      n \in { <<"B", "e", "d", "f", "o", "r", "d", " ", "C", "o", "u", "n", "t", "y">>, <<"H", "a", "l", "i", "f", "a", "x", " ", "C", "o", "u", "n", "t", "y">> } }

\* One extract with lines for both names.
REGISTRY_FILE_ROWS ==
  << CsvRow(<<"B", "e", "d", "f", "o", "r", "d", " ", "C", "o", "u", "n", "t", "y">>, <<"P", "r", "e", "s", "i", "d", "e", "n", "t">>, <<"D", "e", "m", "o", "c", "r", "a", "t", "i", "c">>, <<"J", "o", "s", "e", "p", "h", " ", "R", ".", " ", "B", "i", "d", "e", "n">>, <<"6", "0", ",", "0", "0", "0">>),
     CsvRow(<<"H", "a", "l", "i", "f", "a", "x", " ", "C", "o", "u", "n", "t", "y">>, <<"P", "r", "e", "s", "i", "d", "e", "n", "t">>, <<"R", "e", "p", "u", "b", "l", "i", "c", "a", "n">>, <<"D", "o", "n", "a", "l", "d", " ", "J", ".", " ", "T", "r", "u", "m", "p">>, <<"4", "0", "0", "0", "0">>),
     CsvRow(<<"B", "e", "d", "f", "o", "r", "d", " ", "C", "o", "u", "n", "t", "y">>, <<"P", "r", "e", "s", "i", "d", "e", "n", "t">>, <<"L", "i", "b", "e", "r", "t", "a", "r", "i", "a", "n">>, <<"J", "o", " ", "J", "o", "r", "g", "e", "n", "s", "e", "n">>, <<"1", "0", "0", ",", "0", "0", "0">>) >>

InitRegistry ==
  /\ shapefile \in { [exists |-> TRUE, rows |-> rows] :
                       rows \in SeqsUpTo(ShapeRowPool, MaxShapeRows) }
  /\ csv_files = { [name |-> RECENT_FILE, fieldnames |-> REQUIRED_COLUMNS,
                    rows |-> REGISTRY_FILE_ROWS] }
  /\ today \in Dates
  /\ pc = "registry"
  /\ MainIdle
  /\ FnIdle

SpecRegistry == InitRegistry /\ [][Next]_vars

(***************************************************************************)
(* Harness for the pure functions: draw an argument, apply the function    *)
(***************************************************************************)
\* The aggregator and the validator are not running.
PipelineOff ==
  /\ shapefile = [exists |-> FALSE, rows |-> <<>>]
  /\ csv_files = {}
  /\ today = <<>>
  /\ pc = "off"
  /\ MainIdle

PipelineVars == <<inputVars, mainVars, diskVars, validatorVars, historyVars>>

\* ---- build_county_record on one group ----
\* Most rows in the group handed to build_county_record.
MaxGroupRows == 3

\* Vote counts of the group's rows: pairs of them sit on the 0.5 %, 10 % and
\* 20 % band edges and inside the Lean and Likely bands.
GroupVotes == {0, 199, 201, 40000, 45000, 55000, 60000}

GroupRows ==
  { [party_code |-> p[1], candidate |-> p[2], votes |-> v] :
      p \in { <<DEM, <<"J", "o", "s", "e", "p", "h", " ", "R", ".", " ", "B", "i", "d", "e", "n">>>>,
              <<REP, <<"D", "o", "n", "a", "l", "d", " ", "J", ".", " ", "T", "r", "u", "m", "p">>>>,
              <<<<"L", "I", "B">>, <<"J", "o", " ", "J", "o", "r", "g", "e", "n", "s", "e", "n">>>> },
      v \in GroupVotes }

InitRecord ==
  /\ PipelineOff
  /\ input \in SeqsUpTo(GroupRows, MaxGroupRows)
  /\ output = <<>>
  /\ previous = <<>>
  /\ fpc = "call"

CallBuildCountyRecord ==
  /\ fpc = "call"
  /\ output' = build_county_record(<<"2", "0", "2", "0">>, <<"P", "r", "e", "s", "i", "d", "e", "n", "t">>,
                                   <<"B", "e", "d", "f", "o", "r", "d", " ", "C", "o", "u", "n", "t", "y">>, <<"5", "1", "0", "1", "9">>, input)
  /\ fpc' = "returned"
  /\ UNCHANGED <<input, previous>>
  /\ UNCHANGED PipelineVars

NextRecord == CallBuildCountyRecord

SpecRecord == InitRecord /\ [][NextRecord]_vars

\* ---- build_county_record on a group with split and signed rows ----
\* Vote counts as parse_votes hands them on: int(float(s)) keeps the sign of
\* the text, so a row can carry a negative count.
SignedGroupVotes == {-5, 0, 3, 5}

\* Two Democratic candidates, so that one party's votes can be split over
\* several rows and over several names.
SplitGroupRows ==
  { [party_code |-> p[1], candidate |-> p[2], votes |-> v] :
      p \in { <<DEM, <<"J", "o", "s", "e", "p", "h", " ", "R", ".", " ", "B", "i", "d", "e", "n">>>>,
              <<DEM, <<"B", "e", "r", "n", "i", "e", " ", "S", "a", "n", "d", "e", "r", "s">>>>,
              <<REP, <<"D", "o", "n", "a", "l", "d", " ", "J", ".", " ", "T", "r", "u", "m", "p">>>>,
              <<<<"L", "I", "B">>, <<"J", "o", " ", "J", "o", "r", "g", "e", "n", "s", "e", "n">>>> },
      v \in SignedGroupVotes }

InitGroup ==
  /\ PipelineOff
  /\ input \in SeqsUpTo(SplitGroupRows, MaxGroupRows)
  /\ output = <<>>
  /\ previous = <<>>
  /\ fpc = "call"

SpecGroup == InitGroup /\ [][NextRecord]_vars

\* ---- competitiveness_from_margin on one margin ----
\* Largest absolute margin drawn, in hundredths of a percentage point.
MaxMargin == 4500

InitClassifier ==
  /\ PipelineOff
  /\ input \in (-MaxMargin)..MaxMargin
  /\ output = <<>>
  /\ previous = <<>>
  /\ fpc = "call"

CallClassifier ==
  /\ fpc = "call"
  /\ output' = competitiveness_from_margin(Rat(input, 100))
  /\ fpc' = "returned"
  /\ UNCHANGED <<input, previous>>
  /\ UNCHANGED PipelineVars

NextClassifier == CallClassifier

SpecClassifier == InitClassifier /\ [][NextClassifier]_vars

\* ---- normalize_county, applied once and then again to its result ----
\* Longest locality text drawn.
MaxLen == 4

NormalizeAlphabet == {"a", "B", " ", ".", "&"}

InitNormalize ==
  /\ PipelineOff
  /\ input \in SeqsUpTo(NormalizeAlphabet, MaxLen)
  /\ output = <<>>
  /\ previous = <<>>
  /\ fpc = "call"

CallNormalize ==
  /\ fpc = "call"
  /\ output' = normalize_county(input)
  /\ fpc' = "once"
  /\ UNCHANGED <<input, previous>>
  /\ UNCHANGED PipelineVars

CallNormalizeAgain ==
  /\ fpc = "once"
  /\ previous' = output
  /\ output' = normalize_county(output)
  /\ fpc' = "twice"
  /\ UNCHANGED input
  /\ UNCHANGED PipelineVars

NextNormalize == CallNormalize \/ CallNormalizeAgain

SpecNormalize == InitNormalize /\ [][NextNormalize]_vars

\* ---- year_from_filename on one file name ----
\* File names: a four-character head, a date part and a tail of at most
\* MaxLen characters; heads and date parts with and without non-digits.
NameHeads == { <<"2", "0", "1", "6">>, <<"1", "9", "9", "6">>, <<"2", "0", "x", "6">>, <<"v", "a">> }

NameDates == { <<"1", "1", "0", "8">>, <<"1", "1", "_", "8">>, <<"1", "1", "0">> }

NameTailAlphabet == {"_", "v", "7"}

FileNames ==
  { h \o d \o t : h \in NameHeads, d \in NameDates,
                  t \in SeqsUpTo(NameTailAlphabet, MaxLen) }

InitFilename ==
  /\ PipelineOff
  /\ input \in FileNames
  /\ output = <<>>
  /\ previous = <<>>
  /\ fpc = "call"

CallYearFromFilename ==
  /\ fpc = "call"
  /\ output' = year_from_filename(input)
  /\ fpc' = "returned"
  /\ UNCHANGED <<input, previous>>
  /\ UNCHANGED PipelineVars

NextFilename == CallYearFromFilename

SpecFilename == InitFilename /\ [][NextFilename]_vars

\* ---- parse_votes on one vote text ----
\* Characters of the short vote texts drawn: digits, the thousand separator,
\* the decimal point, a blank, a sign and a letter.
VoteAlphabet == {"1", "7", ",", ".", " ", "-", "x"}

\* Vote texts handed to parse_votes: every text of at most MaxLen characters
\* over VoteAlphabet, and longer texts as the extracts hold them.
VoteTexts ==
  SeqsUpTo(VoteAlphabet, MaxLen)
    \cup { <<"1", "2", ",", "3", "4", "5">>, <<"1", ",", "2", "3", "4", ".", "0">>, <<"1", "2", "3", "4">>, <<" ", "6", "0", ",", "0", "0", "0", " ">>, <<"n", "/", "a">>, <<"1", ",", "2", "x", "4">> }

InitParseVotes ==
  /\ PipelineOff
  /\ input \in VoteTexts
  /\ output = <<>>
  /\ previous = <<>>
  /\ fpc = "call"

\* The call returns a count, or raises ValueError and returns nothing.
CallParseVotes ==
  /\ fpc = "call"
  /\ output' = IF ParseVotesRaises(input)
                 THEN [raised |-> TRUE, value |-> 0]
                 ELSE [raised |-> FALSE, value |-> parse_votes(input)]
  /\ fpc' = "returned"
  /\ UNCHANGED <<input, previous>>
  /\ UNCHANGED PipelineVars

NextParseVotes == CallParseVotes

SpecParseVotes == InitParseVotes /\ [][NextParseVotes]_vars

\* ---- the validator on documents of any origin ----
\* Most County Results in a document handed to the validator.
MaxRecords == 2

\* The County Result build_county_record stores for a 60000 : 40000 group,
\* and a 60000 : 40000 : 60000 group with a third party.
StoredRecord(other) ==
  build_county_record(<<"2", "0", "2", "0">>, <<"P", "r", "e", "s", "i", "d", "e", "n", "t">>, <<"B", "e", "d", "f", "o", "r", "d", " ", "C", "o", "u", "n", "t", "y">>, <<"5", "1", "0", "1", "9">>,
    << [party_code |-> DEM, candidate |-> <<"J", "o", "s", "e", "p", "h", " ", "R", ".", " ", "B", "i", "d", "e", "n">>, votes |-> 60000],
       [party_code |-> REP, candidate |-> <<"D", "o", "n", "a", "l", "d", " ", "J", ".", " ", "T", "r", "u", "m", "p">>, votes |-> 40000] >>
    \o IF other > 0
         THEN << [party_code |-> <<"L", "I", "B">>, candidate |-> <<"J", "o", " ", "J", "o", "r", "g", "e", "n", "s", "e", "n">>, votes |-> other] >>
         ELSE <<>>)

\* rec without the key `key`
Without(rec, key) == [k \in DOMAIN rec \ {key} |-> rec[k]]

\* County Results as a document may hold them: as stored; stored with a
\* rating the validator derives differently; with the competitiveness block
\* missing, null, empty, lacking its color, or carrying an outdated color;
\* and with no vote counts at all.
RecordVariants ==
  LET rec == StoredRecord(0)
  IN  { rec,
        StoredRecord(60000),
        Without(rec, "competitiveness"),
        [rec EXCEPT !.competitiveness = JsonNull],
        [rec EXCEPT !.competitiveness = <<>>],
        [rec EXCEPT !.competitiveness = Without(@, "color")],
        [rec EXCEPT !.competitiveness.color = <<"#", "0", "0", "0", "0", "0", "0">>],
        Without(Without(Without(rec, "dem_votes"), "rep_votes"), "total_votes") }

\* Display names under which the records of a document are keyed, in order.
CountyKeys ==
  << <<"B", "e", "d", "f", "o", "r", "d", " ", "C", "o", "u", "n", "t", "y">>, <<"H", "a", "l", "i", "f", "a", "x", " ", "C", "o", "u", "n", "t", "y">>, <<"M", "a", "n", "a", "s", "s", "a", "s", " ", "c", "i", "t", "y">> >>

\* Documents with up to MaxRecords County Results of one year and contest,
\* complete or lacking one of the top-level keys the validator reads.
ValidatorDocuments ==
  LET Complete(recs) ==
        Payload([i \in DOMAIN recs |->
                   [year |-> <<"2", "0", "2", "0">>, contest |-> <<"P", "r", "e", "s", "i", "d", "e", "n", "t">>,
                    county |-> CountyKeys[i], rec |-> recs[i]]],
                <<>>, << RECENT_FILE >>, Len(recs), <<"2", "0", "2", "6", "-", "0", "3", "-", "0", "1">>)
  IN  UNION { { Complete(recs),
                Without(Complete(recs), "categorization_system"),
                Without(Complete(recs), "results_by_year") } :
              recs \in SeqsUpTo(RecordVariants, MaxRecords) }

\* What may be found at the path handed to the validator: nothing, a file
\* that is not JSON (held as the truncated file), or a document.
ValidatorFiles ==
  {Absent, Truncated} \cup {Written(doc) : doc \in ValidatorDocuments}

\* The aggregator is not running; a file of any origin is at the path.
InitValidator ==
  /\ shapefile = [exists |-> FALSE, rows |-> <<>>]
  /\ csv_files = {}
  /\ today = <<>>
  /\ pc = "done"
  /\ county_map = <<>>
  /\ county_info = <<>>
  /\ all_rows = <<>>
  /\ source_files = <<>>
  /\ row_i = 0
  /\ grouped = <<>>
  /\ unmatched = <<>>
  /\ group_queue = <<>>
  /\ results_by_year = <<>>
  /\ total_county_results = 0
  /\ geojson_file = Absent
  /\ json_file \in ValidatorFiles
  /\ last_written = Absent
  /\ v_runs = 0
  /\ v_fix = FALSE
  /\ v_result = NoResult
  /\ v_mismatches = <<>>
  /\ v_pc = "idle"
  /\ v_payload = <<>>
  /\ FnIdle

NextValidator ==
  \/ \E fix \in BOOLEAN : ValidatorMain(fix)
  \/ ValidatorDump

SpecValidator == InitValidator /\ [][NextValidator]_vars

(***************************************************************************)
(* Properties                                                              *)
(***************************************************************************)
\* The aggregator has written the whole document.
DocumentWritten == pc \in {"done", "crashed"} /\ json_file.state = "written"

\* C1: a report-only validator run on the document the aggregator has just
\* written finds no mismatch and returns 0, and for every County Result of
\* that document expected_competitiveness over its dem_votes, rep_votes and
\* total_votes equals its competitiveness block.
C1_FreshDocumentValidates ==
  /\ (DocumentWritten /\ v_runs = 1 /\ ~v_fix)
       => v_result = Exited(0) /\ v_mismatches = <<>>
  /\ (DocumentWritten /\ v_runs = 0) =>
       LET doc == json_file.content
       IN  \A i \in DOMAIN doc.results_by_year :
             LET rec == doc.results_by_year[i].rec
             IN  expected_competitiveness(rec.dem_votes, rec.rep_votes,
                                          rec.total_votes, to_scale_map(doc))
                 = rec.competitiveness

\* C2: the competitiveness block of a County Result is the classifier's
\* rating of the signed two-party margin recomputed from the record's own
\* dem_votes, rep_votes and two_party_total (0 when two_party_total is 0),
\* and two_party_total is dem_votes + rep_votes.
C2_RatingReproducible ==
  fpc = "returned" =>
    LET margin == IF output.two_party_total > 0
                    THEN Rat((output.dem_votes - output.rep_votes) * 100,
                             output.two_party_total)
                    ELSE Rat(0, 1)
    IN  /\ output.two_party_total = output.dem_votes + output.rep_votes
        /\ output.competitiveness = competitiveness_from_margin(margin)

C2_Witness ==
  /\ fpc = "returned"
  /\ output.dem_votes = 55000
  /\ output.rep_votes = 45000
  /\ output.other_votes = 60000
  /\ output.competitiveness.code = <<"D", "_", "S", "A", "F", "E">>

\* C3: in every County Result dem_votes + rep_votes + other_votes equals
\* total_votes, total_votes being the sum of the votes of all rows of the
\* group and dem_votes / rep_votes the sums over its DEM / REP rows.
C3_VotesAddUp ==
  fpc = "returned" =>
    /\ output.dem_votes + output.rep_votes + output.other_votes = output.total_votes
    /\ output.total_votes = SumVotes(input)
    /\ output.dem_votes = SumVotes(SelectSeq(input, LAMBDA r : r.party_code = DEM))
    /\ output.rep_votes = SumVotes(SelectSeq(input, LAMBDA r : r.party_code = REP))

C3_Witness ==
  /\ fpc = "returned"
  /\ Len(input) = 3
  /\ output.dem_votes = 201
  /\ output.rep_votes = 199
  /\ output.other_votes = 40000
  /\ output.total_votes = 40400

\* The band of a margin of k hundredths of a percentage point, by the
\* half-open bands of the threshold table.
BandOf(k) ==
  LET a == Abs(k)
  IN  IF a < 50 THEN <<"T", "o", "s", "s", "u", "p">>
      ELSE IF a < 100 THEN <<"T", "i", "l", "t">>
      ELSE IF a < 550 THEN <<"L", "e", "a", "n">>
      ELSE IF a < 1000 THEN <<"L", "i", "k", "e", "l", "y">>
      ELSE IF a < 2000 THEN <<"S", "a", "f", "e">>
      ELSE IF a < 3000 THEN <<"S", "t", "r", "o", "n", "g", "h", "o", "l", "d">>
      ELSE IF a < 4000 THEN <<"D", "o", "m", "i", "n", "a", "n", "t">>
      ELSE <<"A", "n", "n", "i", "h", "i", "l", "a", "t", "i", "o", "n">>

\* C4: competitiveness_from_margin gives every signed margin the category of
\* the half-open band its absolute value lies in; a margin on a band edge
\* (0.5, 1, 5.5, 10, 20, 30, 40 or a negative of these) gets the higher band.
C4_HalfOpenBands ==
  fpc = "returned" => output.category = BandOf(input)

C4_Witness ==
  /\ fpc = "returned"
  /\ input = -2000
  /\ output.category = <<"S", "t", "r", "o", "n", "g", "h", "o", "l", "d">>

\* The code of a side prefix and a category, spelled out.
CodeOf ==
  (<<"T", "i", "l", "t">> :> <<"_", "T", "I", "L", "T">>) @@
  (<<"L", "e", "a", "n">> :> <<"_", "L", "E", "A", "N">>) @@
  (<<"L", "i", "k", "e", "l", "y">> :> <<"_", "L", "I", "K", "E", "L", "Y">>) @@
  (<<"S", "a", "f", "e">> :> <<"_", "S", "A", "F", "E">>) @@
  (<<"S", "t", "r", "o", "n", "g", "h", "o", "l", "d">> :> <<"_", "S", "T", "R", "O", "N", "G", "H", "O", "L", "D">>) @@
  (<<"D", "o", "m", "i", "n", "a", "n", "t">> :> <<"_", "D", "O", "M", "I", "N", "A", "N", "T">>) @@
  (<<"A", "n", "n", "i", "h", "i", "l", "a", "t", "i", "o", "n">> :> <<"_", "A", "N", "N", "I", "H", "I", "L", "A", "T", "I", "O", "N">>)

\* C5: a positive margin outside the Tossup band is rated Democratic with
\* code D_<CATEGORY>, a negative one Republican with code R_<CATEGORY>; a
\* Tossup has party Tossup and code TOSSUP; the party is Tossup exactly when
\* the category is.
C5_SideFollowsSign ==
  fpc = "returned" =>
    /\ (output.party = <<"T", "o", "s", "s", "u", "p">>) <=> (output.category = <<"T", "o", "s", "s", "u", "p">>)
    /\ output.category = <<"T", "o", "s", "s", "u", "p">> => output.code = <<"T", "O", "S", "S", "U", "P">>
    /\ (output.category # <<"T", "o", "s", "s", "u", "p">> /\ input > 0) =>
         /\ output.party = <<"D", "e", "m", "o", "c", "r", "a", "t", "i", "c">>
         /\ output.code = <<"D">> \o CodeOf[output.category]
    /\ (output.category # <<"T", "o", "s", "s", "u", "p">> /\ input < 0) =>
         /\ output.party = <<"R", "e", "p", "u", "b", "l", "i", "c", "a", "n">>
         /\ output.code = <<"R">> \o CodeOf[output.category]

C5_Witness ==
  /\ fpc = "returned"
  /\ input = -700
  /\ output.party = <<"R", "e", "p", "u", "b", "l", "i", "c", "a", "n">>
  /\ output.code = <<"R", "_", "L", "I", "K", "E", "L", "Y">>

\* C6: the color of every rating the classifier returns is the color that
\* the scale serialized into the document lists for that party and category.
C6_ColorMatchesScale ==
  fpc = "returned" =>
    LET doc == Payload(<<>>, <<>>, <<>>, 0, <<>>)
    IN  output.color = to_scale_map(doc)[output.party][output.category]

C6_Witness ==
  /\ fpc = "returned"
  /\ input = 1500
  /\ output.party = <<"D", "e", "m", "o", "c", "r", "a", "t", "i", "c">>
  /\ output.category = <<"S", "a", "f", "e">>
  /\ output.color = <<"#", "6", "b", "a", "e", "d", "6">>

\* C7: a group with dem_votes 60000, rep_votes 40000 and total_votes 100000
\* yields margin 20000, margin_pct "20.00", category Stronghold and code
\* D_STRONGHOLD.
C7_WorkedExample ==
  (/\ fpc = "returned"
   /\ output.dem_votes = 60000
   /\ output.rep_votes = 40000
   /\ output.total_votes = 100000) =>
    /\ output.margin = 20000
    /\ output.margin_pct = <<"2", "0", ".", "0", "0">>
    /\ output.competitiveness.category = <<"S", "t", "r", "o", "n", "g", "h", "o", "l", "d">>
    /\ output.competitiveness.code = <<"D", "_", "S", "T", "R", "O", "N", "G", "H", "O", "L", "D">>

C7_Witness ==
  /\ fpc = "returned"
  /\ output.dem_votes = 60000
  /\ output.rep_votes = 40000
  /\ output.total_votes = 100000
  /\ output.margin_pct = <<"2", "0", ".", "0", "0">>

\* Number of indices of s holding x
Count(s, x) == Cardinality({i \in DOMAIN s : s[i] = x})

\* The registry knows the locality of Raw Record r, under its own name or
\* under the current name of its historical alias.
Resolvable(r) ==
  (IF r.county_norm \in DOMAIN HISTORICAL_TO_CURRENT
     THEN HISTORICAL_TO_CURRENT[r.county_norm]
     ELSE r.county_norm) \in DOMAIN county_map

\* C8: every Raw Record the grouping loop has consumed is in exactly one
\* group, as often as it was loaded, or else its locality did not resolve,
\* its raw locality text is in unmatched for its year and it is in no group;
\* the diagnostics reach the written document.
C8_GroupedOrUnmatched ==
  /\ \A i \in 1..row_i :
       LET r      == all_rows[i]
           inKeys == {k \in DOMAIN grouped : Count(grouped[k], r) > 0}
           listed == \E j \in DOMAIN unmatched :
                       /\ unmatched[j].year = r.year
                       /\ r.county_raw \in unmatched[j].names
       IN  \/ /\ Resolvable(r)
              /\ Cardinality(inKeys) = 1
              /\ \A k \in inKeys :
                   /\ k[1] = r.year
                   /\ k[2] = r.contest
                   /\ Count(grouped[k], r) = Count(SubSeq(all_rows, 1, row_i), r)
              /\ ~listed
           \/ /\ ~Resolvable(r)
              /\ inKeys = {}
              /\ listed
  /\ DocumentWritten =>
       \A i \in DOMAIN all_rows :
         ~Resolvable(all_rows[i]) =>
           \E j \in DOMAIN json_file.content.unmatched_counties :
             LET u == json_file.content.unmatched_counties[j]
             IN  u.year = all_rows[i].year
                 /\ all_rows[i].county_raw \in Range(u.names)

C8_Witness ==
  /\ pc = "done"
  /\ Len(all_rows) = 3
  /\ \E i \in DOMAIN all_rows : ~Resolvable(all_rows[i])
  /\ \E i \in DOMAIN all_rows : Resolvable(all_rows[i])
  /\ Len(json_file.content.unmatched_counties) = 1
  /\ Len(json_file.content.results_by_year) = 1

\* C9: once the grouping loop has consumed a record whose normalized
\* locality is a key of HISTORICAL_TO_CURRENT and a record of the same year
\* and contest carrying the alias's current name, both are in the group of
\* the current name's locality id, and the written document holds one County
\* Result for that year, contest and id, totalling the votes of all the
\* records loaded under either name.
C9_AliasSharesGroup ==
  \A i, j \in 1..row_i :
    LET old == all_rows[i]
        new == all_rows[j]
    IN  (/\ old.county_norm \in DOMAIN HISTORICAL_TO_CURRENT
         /\ new.county_norm = HISTORICAL_TO_CURRENT[old.county_norm]
         /\ new.county_norm \in DOMAIN county_map
         /\ new.year = old.year
         /\ new.contest = old.contest) =>
          LET key  == <<old.year, old.contest, county_map[new.county_norm]>>
              both == SelectSeq(all_rows,
                        LAMBDA r : /\ r.year = old.year
                                   /\ r.contest = old.contest
                                   /\ r.county_norm \in
                                        {old.county_norm, new.county_norm})
          IN  /\ key \in DOMAIN grouped
              /\ Count(grouped[key], old) > 0
              /\ Count(grouped[key], new) > 0
              /\ DocumentWritten =>
                   LET res == json_file.content.results_by_year
                       hit == {k \in DOMAIN res :
                                 /\ res[k].year = old.year
                                 /\ res[k].contest = old.contest
                                 /\ res[k].rec.county_fips = key[3]}
                   IN  /\ Cardinality(hit) = 1
                       /\ \A k \in hit :
                            res[k].rec.total_votes = SumVotes(both)

C9_Witness ==
  /\ pc = "done"
  /\ \E i, j \in DOMAIN all_rows :
       /\ all_rows[i].county_raw = <<"B", "e", "d", "f", "o", "r", "d", " ", "C", "i", "t", "y">>
       /\ all_rows[i].county_norm = <<"B", "E", "D", "F", "O", "R", "D", " ", "C", "I", "T", "Y">>
       /\ all_rows[j].county_norm = <<"B", "E", "D", "F", "O", "R", "D", " ", "C", "O", "U", "N", "T", "Y">>
       /\ all_rows[j].year = all_rows[i].year
  /\ \E k \in DOMAIN json_file.content.results_by_year :
       LET e == json_file.content.results_by_year[k]
       IN  /\ e.year = <<"1", "9", "9", "6">>
           /\ e.county = <<"B", "e", "d", "f", "o", "r", "d", " ", "C", "o", "u", "n", "t", "y">>
           /\ e.rec.dem_votes = 60000
           /\ e.rec.rep_votes = 40000

\* C10: normalize_county is idempotent: applying it to its own result
\* returns that result unchanged.
C10_NormalizeIdempotent ==
  fpc = "twice" => output = previous

\* C11: parse_votes never raises: every vote text yields a count, blank text
\* yields 0, "12,345" yields 12345, and "1,234.0" and "1234" both yield 1234.
C11_ParseVotesNeverRaises ==
  fpc = "returned" =>
    /\ ~output.raised
    /\ Strip(input) = <<>> => output.value = 0
    /\ input = <<"1", "2", ",", "3", "4", "5">> => output.value = 12345
    /\ input \in {<<"1", ",", "2", "3", "4", ".", "0">>, <<"1", "2", "3", "4">>} => output.value = 1234

\* The line `row` of an extract gets past the row rules of the loader.
PassesRowRules(row) ==
  /\ Strip(row.county) # <<>>
  /\ normalize_county(clean_county_for_matching(Strip(row.county)))
       \notin TOTAL_MARKERS
  /\ canonical_contest(Strip(row.office)) \in ALLOWED_CONTESTS

\* C12: when a run has written its document, every line of a file whose name
\* fails the date pattern that gets past the row rules was loaded as a Raw
\* Record of year 'unknown'; if the registry knows its locality, the document
\* holds a County Result for its contest and locality under the year key
\* 'unknown', and otherwise its raw locality is listed under 'unknown'.
C12_UndatedFileKept ==
  DocumentWritten =>
    \A f \in csv_files :
      (/\ year_from_filename(f.name) = <<"u", "n", "k", "n", "o", "w", "n">>
       /\ REQUIRED_COLUMNS \subseteq f.fieldnames) =>
        \A k \in DOMAIN f.rows :
          PassesRowRules(f.rows[k]) =>
            \E i \in DOMAIN all_rows :
              LET r   == all_rows[i]
                  doc == json_file.content
              IN  /\ r.source_file = f.name
                  /\ r.county_raw = Strip(f.rows[k].county)
                  /\ r.year = <<"u", "n", "k", "n", "o", "w", "n">>
                  /\ Resolvable(r) =>
                       \E j \in DOMAIN doc.results_by_year :
                         LET e == doc.results_by_year[j]
                         IN  /\ e.year = <<"u", "n", "k", "n", "o", "w", "n">>
                             /\ e.contest = r.contest
                             /\ e.rec.county_fips = ResolveGeoid(county_map, r)
                             /\ e.rec.total_votes >= r.votes
                  /\ ~Resolvable(r) =>
                       \E j \in DOMAIN doc.unmatched_counties :
                         /\ doc.unmatched_counties[j].year = <<"u", "n", "k", "n", "o", "w", "n">>
                         /\ r.county_raw \in Range(doc.unmatched_counties[j].names)

C12_Witness ==
  /\ DocumentWritten
  /\ \E f \in csv_files :
       /\ f.name = UNDATED_FILE
       /\ \E k \in DOMAIN f.rows : f.rows[k].county = <<"A", "l", "e", "x", "a", "n", "d", "r", "i", "a", " ", "c", "i", "t", "y">>
  /\ \E j \in DOMAIN json_file.content.results_by_year :
       LET e == json_file.content.results_by_year[j]
       IN  /\ e.year = <<"u", "n", "k", "n", "o", "w", "n">>
           /\ e.county = <<"A", "l", "e", "x", "a", "n", "d", "r", "i", "a", " ", "c", "i", "t", "y">>
           /\ e.rec.dem_votes = 10

\* C13: the manifest load_all_rows returns, and the written document
\* persists as source_openelections_files, holds exactly the names of the
\* files that contributed at least one Raw Record.
C13_ManifestOnlyContributors ==
  LET contributors == {all_rows[i].source_file : i \in DOMAIN all_rows}
  IN  /\ pc \notin {"registry", "load"} =>
           Range(source_files) = contributors
      /\ DocumentWritten =>
           Range(json_file.content.source_openelections_files) = contributors

\* C14: the document a second run of main() writes over the same input files
\* and shapefile equals, field by field, the document the first run wrote.
C14_RerunIdentical ==
  (DocumentWritten /\ last_written.state = "written" /\ v_runs = 0) =>
    json_file.content = last_written.content

RECURSIVE KeysInOrder(_)
\* The distinct elements of s in the order of their first occurrence
KeysInOrder(s) ==
  IF s = <<>> THEN <<>>
  ELSE LET rest == KeysInOrder(SubSeq(s, 1, Len(s) - 1))
       IN  IF s[Len(s)] \in Range(rest) THEN rest ELSE Append(rest, s[Len(s)])

\* The strings of s are in strictly ascending order.
Ascending(s) == \A i \in 1..(Len(s) - 1) : StrLess(s[i], s[i + 1])

\* C15: in the written document the keys of every nested mapping are in
\* ascending order: the years of results_by_year, the contests of a year, the
\* locality display names of a contest, the years of unmatched_counties and
\* the party codes of all_parties.
C15_KeysSorted ==
  DocumentWritten =>
    LET doc == json_file.content
        res == doc.results_by_year
        um  == doc.unmatched_counties
        In(y)        == SelectSeq(res, LAMBDA e : e.year = y)
        Under(y, c)  == SelectSeq(In(y), LAMBDA e : e.contest = c)
    IN  /\ Ascending(KeysInOrder([i \in DOMAIN res |-> res[i].year]))
        /\ \A i \in DOMAIN res :
             /\ Ascending(KeysInOrder(
                  [k \in DOMAIN In(res[i].year) |-> In(res[i].year)[k].contest]))
             /\ Ascending(KeysInOrder(
                  [k \in DOMAIN Under(res[i].year, res[i].contest) |->
                     Under(res[i].year, res[i].contest)[k].county]))
             /\ Ascending([k \in DOMAIN res[i].rec.all_parties |->
                             res[i].rec.all_parties[k][1]])
        /\ Ascending([j \in DOMAIN um |-> um[j].year])

\* C16: the result document is replaced atomically by the aggregator and by
\* the validator in --fix mode: in no reachable state is the file at
\* JSON_PATH empty, truncated or partly written; it is absent or holds a
\* complete document.
C16_AtomicReplace ==
  json_file.state \in {"absent", "written"}

\* The four keys of a competitiveness block.
BlockKeys == {"category", "party", "code", "color"}

\* The document holds both top-level keys the validator needs.
HasRequiredKeys(doc) ==
  {"categorization_system", "results_by_year"} \subseteq DOMAIN doc

\* C17: once a validator process has ended, its exit code is 2 exactly when
\* the input file does not exist; for an existing file it is 0 when no record
\* mismatched or --fix was given, and 1 exactly when at least one mismatch
\* was found and --fix was not given.
C17_ExitCodes ==
  (v_runs > 0 /\ v_pc = "idle") =>
    /\ (v_result.status = 2) <=> (json_file.state = "absent")
    /\ json_file.state # "absent" =>
         /\ (v_mismatches = <<>> \/ v_fix) => v_result.status = 0
         /\ (v_result.status = 1) <=> (v_mismatches # <<>> /\ ~v_fix)

\* C18: a validator run over a document with both top-level keys does not
\* raise; every County Result whose competitiveness block is absent, null,
\* empty or lacks one of the four fields is in the mismatches list with one
\* diff for each field that is missing or differs, wherever in the document
\* it stands; and the document a --fix run writes back holds, for every
\* record, the full block the validator expects.
C18_MissingBlockIsMismatch ==
  [][ /\ (/\ v_runs' = v_runs + 1
          /\ json_file.state = "written"
          /\ HasRequiredKeys(json_file.content)) =>
           LET doc == json_file.content
               res == doc.results_by_year
               Exp(i) == expected_competitiveness(
                           IntField(res[i].rec, "dem_votes"),
                           IntField(res[i].rec, "rep_votes"),
                           IntField(res[i].rec, "total_votes"), to_scale_map(doc))
               Faulty(i) == \E k \in BlockKeys : ActualField(res[i].rec, k) = None
               Off(i) == {k \in BlockKeys : ActualField(res[i].rec, k) # Exp(i)[k]}
           IN  /\ ~v_result'.raised
               /\ \A i \in DOMAIN res :
                    Faulty(i) =>
                      \E m \in DOMAIN v_mismatches' :
                        LET diffs == v_mismatches'[m][4]
                        IN  /\ v_mismatches'[m][1] = res[i].year
                            /\ v_mismatches'[m][2] = res[i].contest
                            /\ v_mismatches'[m][3] = res[i].county
                            /\ Len(diffs) = Cardinality(Off(i))
                            /\ {diffs[d][1] : d \in DOMAIN diffs} = Off(i)
                            /\ \A d \in DOMAIN diffs :
                                 diffs[d][3] = Exp(i)[diffs[d][1]]
      /\ (v_pc = "dump" /\ v_pc' = "idle") =>
           LET doc == json_file'.content
               res == doc.results_by_year
           IN  /\ json_file'.state = "written"
               /\ \A i \in DOMAIN res :
                    /\ "competitiveness" \in DOMAIN res[i].rec
                    /\ res[i].rec.competitiveness =
                         expected_competitiveness(
                           IntField(res[i].rec, "dem_votes"),
                           IntField(res[i].rec, "rep_votes"),
                           IntField(res[i].rec, "total_votes"), to_scale_map(doc))
    ]_vars

C18_Witness ==
  /\ v_runs = 1
  /\ v_fix
  /\ v_pc = "idle"
  /\ v_result = Exited(0)
  /\ Len(v_mismatches) = 2
  /\ Len(v_mismatches[1][4]) = 4
  /\ \A d \in 1..4 : v_mismatches[1][4][d][2] = None
  /\ v_mismatches[2][4] = << <<"color", None, <<"#", "3", "1", "8", "2", "b", "d">>>> >>
  /\ json_file.state = "written"
  /\ \A i \in DOMAIN json_file.content.results_by_year :
       json_file.content.results_by_year[i].rec.competitiveness.code = <<"D", "_", "S", "T", "R", "O", "N", "G", "H", "O", "L", "D">>

\* C19: a validator run over a document that lacks categorization_system or
\* results_by_year raises instead of reporting a result and leaves the file
\* as it was, with and without --fix.
C19_MissingKeyAborts ==
  [][ (/\ v_runs' = v_runs + 1
       /\ json_file.state = "written"
       /\ ~HasRequiredKeys(json_file.content)) =>
        /\ v_result'.raised
        /\ json_file' = json_file ]_vars

\* C20: a report-only validator run leaves the file as it was.  The payload
\* a --fix run writes back has the top-level keys of the document read with
\* the same values, and the same County Results in the same places, each
\* with every field but competitiveness as read; a record that is not in the
\* mismatches list is as read; and the file then holds that whole payload.
C20_FixFrame ==
  [][ /\ (v_runs' = v_runs + 1 /\ ~v_fix') =>
           /\ json_file' = json_file
           /\ v_pc' = "idle"
      /\ (v_runs' = v_runs + 1 /\ v_fix' /\ json_file' # json_file) =>
           LET old == json_file.content
               new == v_payload'
               Listed(e) == \E m \in DOMAIN v_mismatches' :
                              /\ v_mismatches'[m][1] = e.year
                              /\ v_mismatches'[m][2] = e.contest
                              /\ v_mismatches'[m][3] = e.county
           IN  /\ v_mismatches' # <<>>
               /\ DOMAIN new = DOMAIN old
               /\ \A k \in DOMAIN old \ {"results_by_year"} : new[k] = old[k]
               /\ Len(new.results_by_year) = Len(old.results_by_year)
               /\ \A i \in DOMAIN old.results_by_year :
                    LET o == old.results_by_year[i]
                        n == new.results_by_year[i]
                    IN  /\ n.year = o.year
                        /\ n.contest = o.contest
                        /\ n.county = o.county
                        /\ DOMAIN n.rec = DOMAIN o.rec \cup {"competitiveness"}
                        /\ \A f \in DOMAIN o.rec \ {"competitiveness"} :
                             n.rec[f] = o.rec[f]
                        /\ ~Listed(o) => n.rec = o.rec
      /\ (v_pc = "dump" /\ v_pc' = "idle") =>
           json_file' = Written(v_payload)
    ]_vars

C20_Witness ==
  /\ v_runs = 1
  /\ v_fix
  /\ v_pc = "idle"
  /\ Len(v_mismatches) = 1
  /\ json_file.state = "written"
  /\ json_file.content = v_payload
  /\ Len(json_file.content.results_by_year) = 2
  /\ v_mismatches[1][3] = json_file.content.results_by_year[2].county


\* Votes of one candidate name summed over the rows.
CandidateSum(rows, name) ==
  SumVotes(SelectSeq(rows, LAMBDA r : r.candidate = name))

\* The name with the highest vote sum, the first in input order among equal
\* sums; the empty string when there is no row.
TopCandidateBySum(rows) ==
  IF rows = <<>> THEN <<>>
  ELSE rows[CHOOSE i \in DOMAIN rows :
              /\ \A j \in DOMAIN rows :
                   CandidateSum(rows, rows[j].candidate)
                     <= CandidateSum(rows, rows[i].candidate)
              /\ \A j \in 1..(i - 1) :
                   CandidateSum(rows, rows[j].candidate)
                     < CandidateSum(rows, rows[i].candidate)].candidate

\* C21: in every County Result dem_candidate (rep_candidate) is the name
\* whose votes summed over all DEM (REP) rows of the group is highest, also
\* when one name is spread over several rows; equal sums go to the name that
\* comes first in the input; the name is empty when the party has no row.
C21_CandidateByVoteSum ==
  fpc = "returned" =>
    /\ output.dem_candidate = TopCandidateBySum(RowsOfParty(input, DEM))
    /\ output.rep_candidate = TopCandidateBySum(RowsOfParty(input, REP))


TopTwoGap(rows) ==
  LET i    == MaxVotesIndex(rows)
      rest == RemoveAt(rows, i)
      top1 == IF rows = <<>> THEN 0 ELSE rows[i].votes
      top2 == IF rest = <<>> THEN 0 ELSE rest[MaxVotesIndex(rest)].votes
  IN  Abs(top1 - top2)

\* C23: margin is |dem_votes - rep_votes| unless total_votes is 0 with a
\* non-empty group; in that case margin is the vote gap between the two
\* highest rows of the group and margin_pct is the text "0.00".  The rating
\* is computed from the two-party signed margin in both cases, never from
\* the fallback margin.
C23_MarginFallback ==
  fpc = "returned" =>
    /\ IF output.total_votes = 0 /\ input # <<>>
         THEN /\ output.margin = TopTwoGap(input)
              /\ output.margin_pct = <<"0", ".", "0", "0">>
         ELSE output.margin = Abs(output.dem_votes - output.rep_votes)
    /\ output.competitiveness =
         competitiveness_from_margin(
           SignedMarginPct(output.dem_votes, output.rep_votes))


\* C28: the side of the rating agrees with the winner: a Democratic rating
\* comes with winner 'DEM' and dem_votes > rep_votes, a Republican rating
\* with winner 'REP' and rep_votes > dem_votes, and equal dem_votes and
\* rep_votes are always rated Tossup.
C28_RatingSideAgrees ==
  fpc = "returned" =>
    /\ output.competitiveness.party = <<"D", "e", "m", "o", "c", "r", "a", "t", "i", "c">> =>
         /\ output.winner = DEM
         /\ output.dem_votes > output.rep_votes
    /\ output.competitiveness.party = <<"R", "e", "p", "u", "b", "l", "i", "c", "a", "n">> =>
         /\ output.winner = REP
         /\ output.rep_votes > output.dem_votes
    /\ output.dem_votes = output.rep_votes =>
         /\ output.competitiveness.category = <<"T", "o", "s", "s", "u", "p">>
         /\ output.competitiveness.party = <<"T", "o", "s", "s", "u", "p">>

\* A Republican rating of a group in which both parties hold votes.
C28_Witness ==
  /\ fpc = "returned"
  /\ output.competitiveness.party = <<"R", "e", "p", "u", "b", "l", "i", "c", "a", "n">>
  /\ output.dem_votes > 0
  /\ output.winner = REP


\* Spellings of one county in an extract that tags rows by district.
BedfordSpellings ==
  { <<"B", "e", "d", "f", "o", "r", "d", " ", "C", "o", "u", "n", "t", "y", " ", "(", "C", "D", " ", "0", "5", ")">>, <<"B", "e", "d", "f", "o", "r", "d", " ", "C", "o", "u", "n", "t", "y", " ", "(", "c", "d", " ", "6", ")">>, <<"B", "E", "D", "F", "O", "R", "D", " ", "C", "O", "U", "N", "T", "Y">> }

RECURSIVE SumVoteTexts(_)
\* The vote texts of the lines, parsed and added up.
SumVoteTexts(rows) ==
  IF rows = <<>> THEN 0
  ELSE parse_votes(Head(rows).votes) + SumVoteTexts(Tail(rows))

\* C24: lines of one file and contest whose locality text differs only by a
\* trailing congressional-district parenthetical, in any letter case, resolve
\* to the same locality id and are summed into one County Result, none of
\* them is reported as unmatched, and a statewide total line carrying such a
\* parenthetical is skipped.
C24_DistrictRowsSummed ==
  DocumentWritten =>
    \A f \in csv_files :
      LET tagged == SelectSeq(f.rows, LAMBDA row : row.county \in BedfordSpellings)
          doc    == json_file.content
          hit    == {k \in DOMAIN doc.results_by_year :
                       /\ doc.results_by_year[k].year = year_from_filename(f.name)
                       /\ doc.results_by_year[k].contest = <<"P", "r", "e", "s", "i", "d", "e", "n", "t">>
                       /\ doc.results_by_year[k].rec.county_fips = <<"5", "1", "0", "1", "9">>}
      IN  /\ tagged # <<>> =>
                /\ Cardinality(hit) = 1
                /\ \A k \in hit :
                     /\ doc.results_by_year[k].county = <<"B", "e", "d", "f", "o", "r", "d", " ", "C", "o", "u", "n", "t", "y">>
                     /\ doc.results_by_year[k].rec.total_votes = SumVoteTexts(tagged)
          /\ tagged = <<>> => hit = {}
          /\ \A j \in DOMAIN doc.unmatched_counties :
               Range(doc.unmatched_counties[j].names)
                 \cap (BedfordSpellings \cup {<<"T", "o", "t", "a", "l", " ", "(", "C", "D", " ", "1", ")">>}) = {}
          /\ \A i \in DOMAIN all_rows :
               all_rows[i].county_raw # <<"T", "o", "t", "a", "l", " ", "(", "C", "D", " ", "1", ")">>

\* The three spellings and the tagged total line in one file, one result.
C24_Witness ==
  /\ DocumentWritten
  /\ \E f \in csv_files :
       /\ \E k \in DOMAIN f.rows : f.rows[k].county = <<"B", "e", "d", "f", "o", "r", "d", " ", "C", "o", "u", "n", "t", "y", " ", "(", "c", "d", " ", "6", ")">>
       /\ \E k \in DOMAIN f.rows : f.rows[k].county = <<"B", "E", "D", "F", "O", "R", "D", " ", "C", "O", "U", "N", "T", "Y">>
       /\ \E k \in DOMAIN f.rows : f.rows[k].county = <<"T", "o", "t", "a", "l", " ", "(", "C", "D", " ", "1", ")">>
  /\ Len(json_file.content.results_by_year) = 1
  /\ json_file.content.results_by_year[1].rec.dem_votes = 20000
  /\ json_file.content.results_by_year[1].rec.rep_votes = 40000


\* C27: every Raw Record the loader emits has a non-negative vote count,
\* whatever the vote text (a leading minus sign included), so that dem_votes,
\* rep_votes, other_votes and total_votes of every County Result are
\* non-negative.
C27_VotesNonNegative ==
  /\ \A i \in DOMAIN all_rows : all_rows[i].votes >= 0
  /\ \A k \in DOMAIN results_by_year :
       /\ results_by_year[k].rec.dem_votes >= 0
       /\ results_by_year[k].rec.rep_votes >= 0
       /\ results_by_year[k].rec.other_votes >= 0
       /\ results_by_year[k].rec.total_votes >= 0


\* The name begins with eight digits.
BeginsWithDate(name) ==
  /\ Len(name) >= 8
  /\ \A i \in 1..8 : name[i] \in Digits

\* C25: year_from_filename returns the first four characters of every name
\* that begins with eight digits, whatever follows them, and 'unknown' for
\* every name that does not begin with eight digits.
C25_YearOfEveryDatedName ==
  fpc = "returned" =>
    IF BeginsWithDate(input)
      THEN output = SubSeq(input, 1, 4)
      ELSE output = <<"u", "n", "k", "n", "o", "w", "n">>


\* The registry holds every row of the boundary source.
RegistryBuilt ==
  /\ shapefile.exists
  /\ geojson_file.state = "written"
  /\ DOMAIN county_map =
       {normalize_county(shapefile.rows[i].namelsad) : i \in DOMAIN shapefile.rows}
  /\ DOMAIN county_info =
       {shapefile.rows[i].geoid : i \in DOMAIN shapefile.rows}

\* C26: the steps of an aggregator run are ordered.  A step that loads or
\* groups rows starts from the fully built registry; no step after the
\* building step changes the registry; the result document is first opened
\* only when every row is grouped and every group has been aggregated; and
\* with the boundary source missing the run ends without opening the result
\* document or the GeoJSON file.
C26_StepsOrdered ==
  [][ /\ ( \/ all_rows' # all_rows
           \/ source_files' # source_files
           \/ row_i' # row_i
           \/ grouped' # grouped
           \/ unmatched' # unmatched ) => RegistryBuilt
      /\ pc # "registry" =>
           /\ county_map' = county_map
           /\ county_info' = county_info
      /\ (json_file = Absent /\ json_file' # Absent) =>
           /\ RegistryBuilt
           /\ row_i = Len(all_rows)
           /\ group_queue = <<>>
           /\ total_county_results = Cardinality(DOMAIN grouped)
           /\ \A key \in DOMAIN grouped :
                \E k \in DOMAIN results_by_year :
                  /\ results_by_year[k].year = key[1]
                  /\ results_by_year[k].contest = key[2]
                  /\ results_by_year[k].rec.county_fips = key[3]
      /\ ~shapefile.exists =>
           /\ pc' = "crashed"
           /\ json_file' = Absent
           /\ geojson_file' = Absent
           /\ all_rows' = <<>>
    ]_vars

\* A run that grouped three rows into two results and wrote the document.
C26_Witness ==
  /\ pc = "done"
  /\ RegistryBuilt
  /\ row_i = 3
  /\ total_county_results = 2
  /\ json_file.state = "written"


\* C29: summary.total_county_results of the written document equals the
\* number of County Results stored in results_by_year, for any registry:
\* every group yields one stored County Result, and two locality ids that
\* the registry resolves never share a display name.
C29_CountMatchesStored ==
  /\ \A g1, g2 \in Range(county_map) :
       (g1 # g2 /\ g1 # <<>> /\ g2 # <<>>) =>
         county_info[g1].county # county_info[g2].county
  /\ DocumentWritten =>
       /\ json_file.content.summary.total_county_results
            = Len(json_file.content.results_by_year)
       /\ Len(json_file.content.results_by_year) = Cardinality(DOMAIN grouped)


\* C30: --fix converges in one pass.  A validator run that follows a
\* completed --fix run on the same file finds no mismatch, returns 0 and
\* leaves the file as it is, whether it is a report-only or a --fix run.
C30_FixIdempotent ==
  [][ ( /\ v_runs >= 1
        /\ v_fix
        /\ v_pc = "idle"
        /\ v_result = Exited(0)
        /\ v_runs' = v_runs + 1 ) =>
          /\ v_mismatches' = <<>>
          /\ v_result' = Exited(0)
          /\ v_pc' = "idle"
          /\ json_file' = json_file
    ]_vars

\* A report-only run that returned 0 on a document a --fix run has rewritten.
C30_Witness ==
  /\ v_runs = 2
  /\ ~v_fix
  /\ v_pc = "idle"
  /\ v_result = Exited(0)
  /\ v_mismatches = <<>>
  /\ json_file.state = "written"
  /\ json_file.content \notin ValidatorDocuments
  /\ Len(json_file.content.results_by_year) = 2

====
